---- MODULE Spec2Model ----
(***************************************************************************)
(* A model of the aoc_2024 solvers: the grid, weighted-search and          *)
(* keypad-routing code (src/src/days/util.rs, day16.rs, day21.rs), the     *)
(* task-parallel trail search (day10.rs), main() and get_input (main.rs,   *)
(* days.rs), the cached towel count (day19.rs), the falling bytes          *)
(* (day18.rs), the equation solver (day7.rs), the racetrack cheats         *)
(* (day20.rs) and the guard's walk (day6.rs).                              *)
(*                                                                         *)
(* The specifications share the module:                                    *)
(*   SpecGrid      Grid::from_str, the coordinate/index conversions, flood *)
(*   SpecDay16     day16 run(): process_part1 then process_part2 on a maze *)
(*   SpecDay21     day21 run(): process_part1 on a list of codes           *)
(*   SpecCode      day21 run(): process_part1 on a single code             *)
(*   SpecDay10     day10 run(): the tasks of part 1 and part 2             *)
(*   SpecMain      main(): the day tasks, their joins and the result       *)
(*   SpecDay19     day19 process_part1 / process_part2 called in turn      *)
(*   SpecDay18     day18 process_part2: bytes falling one by one           *)
(*   SpecDay7      day7 Equation::try_solve                                *)
(*   SpecDay20     day20 process_part2: anchors and their Offsets          *)
(*   SpecDay6      day6 run(): from_str and movement_map                   *)
(*   SpecDay6Live  SpecDay6 with movement_map taking its steps             *)
(*   SpecParts     day21 process_part1 and process_part2 on a single code  *)
(*   SpecKeys      day21 keypads: route_to_coordinate, next, simulate      *)
(*   SpecDay16Live day16 process_part2 with its loops taking their turns   *)
(* Each keeps the variables of the others at their idle values.            *)
(***************************************************************************)
EXTENDS Integers, Sequences, FiniteSets, TLC

VARIABLES
    \* ---- util.rs: Grid ----
    text,        \* the input text handed to from_str, a sequence of characters
    gpc,         \* "text" | "grid" | "parse_error" | "flood" | "flooded" | "idle"
    grid,        \* the parsed Grid [char_map, width], NoGrid before parsing
    call,        \* the last conversion call made on the grid: [op, arg, off, ret]
    start,       \* flood: the start index
    walls,       \* flood: the characters is_wall answers true for
    to_visit,    \* flood: VecDeque<Node>
    distances    \* flood: Vec<usize>

VARIABLES
    \* ---- day16.rs ----
    raw_input,      \* run(): the maze text
    pc16,           \* where run() is: "input" | "part1" | "find_score" | "part2" |
                    \* "count_forward" | "count_backward" | "done" | "panic" |
                    \* "parse_error" | "idle"
    input,          \* Input { map, start, end }
    scores,         \* find_score: Vec<usize>; count_best_paths: Vec<(usize, u8)>
    heap,           \* BinaryHeap<State>
    result1,        \* what find_score returned: None or Some(score)
    shortest_path,  \* count_best_paths: VecDeque<(usize, Option<Direction>)>
    shortest_map,   \* count_best_paths: Vec<bool>
    result2         \* what count_best_paths returned

VARIABLES
    \* ---- day21.rs ----
    raw_codes,      \* run(): the input text (raw_input)
    pc21,           \* where run() is: "input" | "code" | "expand" | "result" |
                    \* "done" | "panic" | "idle"
    codes,          \* Input { codes }
    line,           \* process_part1: the 1-based number of the code the map is at
    code_num,       \* the closure's code_num
    generation,     \* the closure's loop variable
    current,        \* Vec<Combination>, see Combos below
    next,           \* Vec<Combination>
    lengths,        \* result.len() of the codes done so far
    sum,            \* the running sum of code_num * result.len()
    result21        \* what process_part1 returned

VARIABLES
    \* ---- day10.rs ----
    raw_map,        \* run(): the height map text (raw_input)
    pc10,           \* where run() is: "input" | "part1" | "running1" | "part2" |
                    \* "running2" | "done" | "parse_error" | "idle"
    heights,        \* Input { map }: the ParsedGrid<Height>
    counters,       \* the shared Vec<AtomicUsize> (scores)
    tasks,          \* the spawned tasks, in spawn order: [position, positions,
                    \* seen_position]
    awaited,        \* how many handles `for handle in handles` has awaited
    writes,         \* observation: writes[t][i] counts task t's fetch_adds on index i
    result10_1,     \* what process_part1 returned
    result10_2      \* what process_part2 returned

VARIABLES
    \* ---- main.rs ----
    pcMain,         \* where main() is: "setup" | "spawn" | "join" | "check" | "returned" | "idle"
    spawned,        \* how many tokio::spawn calls of the join! arguments have been made
    input_dir,      \* days.rs get_input: what ./input is: "absent" | "dir" | "file"
    day_pc,         \* per day task: "unspawned" | "get_input" | "create_dir" | "solve" |
                    \* "ok" | "err" | "panicked"
    checked,        \* how many `dayN?` of the final expression have been evaluated
    chain,          \* the value of the .and chain so far
    main_result     \* what main returned

VARIABLES
    \* ---- day19.rs ----
    pc19,           \* "ready" | "idle"
    pattern_cache,  \* the static cache of #[cached] count_pattern_combinations:
                    \* a function from the patterns stored so far to their counts
    invocations,    \* how many process_part1 / process_part2 calls the process has made
    last_call       \* the last call: [part, input, result]

VARIABLES
    \* ---- day18.rs ----
    pc18,           \* where process_part2 is: "input" | "bytes" | "returned" | "idle"
    shape18,        \* the const parameters <<WIDTH, HEIGHT>>
    initial18,      \* the const parameter INITIAL
    byte_locations, \* Input { byte_locations }: a sequence of <<x, y>>
    memory,         \* process_part2: grid, a ParsedGrid<bool> (TRUE: corrupted)
    byte_distances, \* process_part2: distances
    fallen,         \* how many bytes of byte_locations have fallen
    result18        \* what process_part2 returned

VARIABLES
    \* ---- day7.rs ----
    pc7,            \* where try_solve is: "call" | "loop" | "returned" | "panic" | "idle"
    equation,       \* self: Equation { result, operands }
    operators,      \* the operators handed to try_solve
    equations,      \* try_solve: the VecDeque of equations still to reduce
    solved          \* what try_solve returned

VARIABLES
    \* ---- day20.rs ----
    pc20,           \* where process_part2 is: "input" | "flood" | "anchors" | "returned" |
                    \* "parse_error" | "panic" | "idle"
    track_text,     \* the racetrack text
    save,           \* the const parameter SAVE
    racetrack,      \* Input { grid, start, end }
    flooded,        \* process_part2: distances
    anchor,         \* the index the outer iterator comes to next
    yielded,        \* observation: the (position, distance) pairs the Offsets of the four
                    \* directions gave for the last anchor, 1 already added to the distance
    skips,          \* how many skips have been collected
    result20        \* what process_part2 returned

VARIABLES
    \* ---- day6.rs ----
    pc6,            \* where run() is: "start" | "input" | "parsed" | "walking" | "returned" | "panic" |
                    \* "idle"
    guard_text,     \* the guard map text
    guard_input,    \* Input { char_map, position }
    map,            \* movement_map: the clone that walks
    visited,        \* movement_map: Vec<u8>, the directions each position was entered in
    steps,          \* observation: how many map.step() calls have returned Some
    result6         \* what movement_map returned: <<"Ok", visited>> or <<"Err", visited>>

VARIABLES
    \* ---- day21.rs: process_part2 ----
    pcP2,           \* where process_part2 is: "code" | "expand" | "result" | "done" | "panic" |
                    \* "idle" (not called)
    line2,          \* the index of the code the map is at
    code_num2,      \* the closure's code_num
    generation2,    \* the closure's loop variable
    current2,       \* the closure's current, or Untracked
    next2,          \* the closure's next
    min_length2,    \* the generation's min_length
    applied2,       \* observation: in how many generations of this code the expansion
                    \* has been applied to the frontier
    produced,       \* observation: the lengths of the expansions made in this generation
    sum2,           \* the sum so far, or UntrackedSum
    result22        \* what process_part2 returned

VARIABLES
    \* ---- day21.rs: the keypads on their own ----
    pcK,            \* "choose" | "route_call" | "route_done" | "plan" | "simulate" |
                    \* "simulated" | "panic" | "idle"
    keypad,         \* "numeric" | "directional": whose route_to_coordinate is called
    route_from,     \* route_to_coordinate's from
    route_to,       \* route_to_coordinate's to
    returned_route, \* the Route it returned
    plan,           \* a route plan: the Vec<Route> a keypad iterator was collected into,
                    \* as a Combination yields it
    expansion,      \* DirectionalKeypad::new(plan).collect()
    sim_steps,      \* Simulate.steps: the characters not yet taken
    sim_position,   \* Simulate.position
    simulated       \* the characters Simulate has yielded as Some(char)

gridVars == <<text, gpc, grid, call, start, walls, to_visit, distances>>
day16Vars == <<raw_input, pc16, input, scores, heap, result1,
               shortest_path, shortest_map, result2>>
day21Vars == <<raw_codes, pc21, codes, line, code_num, generation, current, next,
               lengths, sum, result21>>
day10Vars == <<raw_map, pc10, heights, counters, tasks, awaited, writes,
               result10_1, result10_2>>
mainVars == <<pcMain, spawned, input_dir, day_pc, checked, chain, main_result>>
day19Vars == <<pc19, pattern_cache, invocations, last_call>>
day18Vars == <<pc18, shape18, initial18, byte_locations, memory, byte_distances, fallen, result18>>
day7Vars == <<pc7, equation, operators, equations, solved>>
day20Vars == <<pc20, track_text, save, racetrack, flooded, anchor, yielded, skips, result20>>
day6Vars == <<pc6, guard_text, guard_input, map, visited, steps, result6>>
part2Vars == <<pcP2, line2, code_num2, generation2, current2, next2, min_length2, applied2, produced, sum2, result22>>
keysVars == <<pcK, keypad, route_from, route_to, returned_route, plan, expansion, sim_steps, sim_position, simulated>>
vars == <<gridVars, day16Vars, day21Vars, day10Vars, mainVars, day19Vars, day18Vars, day7Vars, day20Vars, day6Vars, part2Vars, keysVars>>

\* What the operations of one part of the program leave alone: the other parts.
outsideGrid == <<day16Vars, day21Vars, day10Vars, mainVars, day19Vars, day18Vars, day7Vars, day20Vars, day6Vars, part2Vars, keysVars>>
outsideDay16 == <<gridVars, day21Vars, day10Vars, mainVars, day19Vars, day18Vars, day7Vars, day20Vars, day6Vars, part2Vars, keysVars>>
outsideDay21 == <<gridVars, day16Vars, day10Vars, mainVars, day19Vars, day18Vars, day7Vars, day20Vars, day6Vars, part2Vars, keysVars>>
outsideDay10 == <<gridVars, day16Vars, day21Vars, mainVars, day19Vars, day18Vars, day7Vars, day20Vars, day6Vars, part2Vars, keysVars>>
outsideMain == <<gridVars, day16Vars, day21Vars, day10Vars, day19Vars, day18Vars, day7Vars, day20Vars, day6Vars, part2Vars, keysVars>>
outsideDay19 == <<gridVars, day16Vars, day21Vars, day10Vars, mainVars, day18Vars, day7Vars, day20Vars, day6Vars, part2Vars, keysVars>>
outsideDay18 == <<gridVars, day16Vars, day21Vars, day10Vars, mainVars, day19Vars, day7Vars, day20Vars, day6Vars, part2Vars, keysVars>>
outsideDay7 == <<gridVars, day16Vars, day21Vars, day10Vars, mainVars, day19Vars, day18Vars, day20Vars, day6Vars, part2Vars, keysVars>>
outsideDay20 == <<gridVars, day16Vars, day21Vars, day10Vars, mainVars, day19Vars, day18Vars, day7Vars, day6Vars, part2Vars, keysVars>>
outsideDay6 == <<gridVars, day16Vars, day21Vars, day10Vars, mainVars, day19Vars, day18Vars, day7Vars, day20Vars, part2Vars, keysVars>>
outsidePart2 == <<gridVars, day16Vars, day21Vars, day10Vars, mainVars, day19Vars, day18Vars, day7Vars, day20Vars, day6Vars, keysVars>>
outsideKeys == <<gridVars, day16Vars, day21Vars, day10Vars, mainVars, day19Vars, day18Vars, day7Vars, day20Vars, day6Vars, part2Vars>>

----------------------------------------------------------------------------
(* Bounds of the model.                                                    *)

\* Longest arbitrary input text (over TextAlphabet) handed to from_str.
MaxTextLen == 4
\* Most cells of the well-formed grids handed to from_str (all w*h <= MaxCells).
MaxCells == 8
\* Coordinates handed to coordinate_to_index range over -CoordSlack..(dimension+CoordSlack).
CoordSlack == 2
\* Most cells of the mazes enumerated for day16 (all w*h <= MaxMazeCells, every
\* placement of 'S', 'E' and walls); the named fixture mazes come on top.
MaxMazeCells == 8

----------------------------------------------------------------------------
(* Small helpers on sequences and numbers.                                 *)

Min(S) == CHOOSE m \in S : \A n \in S : m <= n
Max(S) == CHOOSE m \in S : \A n \in S : m >= n
Abs(n) == IF n < 0 THEN -n ELSE n

\* The characters of a string, one one-character string each.
Chars(s) == [i \in 1..Len(s) |-> SubSeq(s, i, i)]

RECURSIVE Flatten(_)
Flatten(ss) == IF ss = <<>> THEN <<>> ELSE Head(ss) \o Flatten(Tail(ss))

RECURSIVE SumSeq(_)
SumSeq(ns) == IF ns = <<>> THEN 0 ELSE Head(ns) + SumSeq(Tail(ns))

\* Option<T>
None == <<"None">>
Some(v) == <<"Some", v>>

\* Result<usize, ()>
Ok(v) == <<"Ok", v>>
Err == <<"Err">>
IsOk(r) == r[1] = "Ok"

\* usize::MAX, the "unreached" sentinel: the largest number TLC's
\* integers hold stands for it.
USIZE_MAX == 2147483647

----------------------------------------------------------------------------
(* util.rs: Direction and Coordinate.                                      *)

North == "North"
East  == "East"
South == "South"
West  == "West"

\* Direction::ALL, in the array's order.
ALL == <<North, East, South, West>>
Direction == {North, East, South, West}

rotate180(d) ==
    CASE d = North -> South
      [] d = East  -> West
      [] d = South -> North
      [] d = West  -> East

\* impl Into<Coordinate> for Direction
into(d) ==
    CASE d = North -> <<0, -1>>
      [] d = East  -> <<1, 0>>
      [] d = South -> <<0, 1>>
      [] d = West  -> <<-1, 0>>

\* Direction::mask
mask(d) ==
    CASE d = North -> 1
      [] d = East  -> 2
      [] d = South -> 4
      [] d = West  -> 8

\* Bit arithmetic on the u8 direction masks; b is a single bit.
has_bit(m, b) == (m \div b) % 2 = 1
bit_or(m, b) == IF has_bit(m, b) THEN m ELSE m + b

\* Direction::from_mask: the directions whose bit is set, in shift order 0..3.
RECURSIVE from_mask_from(_, _)
from_mask_from(m, k) ==
    IF k > Len(ALL) THEN <<>>
    ELSE (IF has_bit(m, mask(ALL[k])) THEN <<ALL[k]>> ELSE <<>>) \o from_mask_from(m, k + 1)
from_mask(m) == from_mask_from(m, 1)

\* Direction::symbol
symbol(d) ==
    CASE d = North -> "^"
      [] d = East  -> ">"
      [] d = South -> "v"
      [] d = West  -> "<"

\* impl Add for Coordinate / impl Sub for Coordinate
add(a, b) == <<a[1] + b[1], a[2] + b[2]>>
sub(a, b) == <<a[1] - b[1], a[2] - b[2]>>

----------------------------------------------------------------------------
(* util.rs: impl FromStr for Grid / ParsedGrid.                            *)

NewLine == "\n"
Space == " "
\* A character whose UTF-8 encoding takes two bytes (U+00E9): str::len counts
\* bytes, chars() counts characters.
TwoByteChar == "U+00E9"
len_utf8(c) == IF c = TwoByteChar THEN 2 ELSE 1

\* str::lines: the text split at '\n'; a final empty piece is not a line.
RECURSIVE lines_from(_, _)
lines_from(cs, cur) ==
    IF cs = <<>> THEN (IF cur = <<>> THEN <<>> ELSE <<cur>>)
    ELSE IF Head(cs) = NewLine THEN <<cur>> \o lines_from(Tail(cs), <<>>)
    ELSE lines_from(Tail(cs), Append(cur, Head(cs)))
lines(cs) == lines_from(cs, <<>>)

\* str::trim: leading and trailing whitespace removed.
RECURSIVE trim_start(_)
trim_start(l) ==
    IF l # <<>> /\ Head(l) = Space THEN trim_start(Tail(l)) ELSE l
RECURSIVE trim_end(_)
trim_end(l) ==
    IF l # <<>> /\ l[Len(l)] = Space THEN trim_end(SubSeq(l, 1, Len(l) - 1)) ELSE l
trim(l) == trim_end(trim_start(l))

\* String::len of a line: its length in bytes.
byte_len(l) == SumSeq([i \in 1..Len(l) |-> len_utf8(l[i])])

\* .map(|line| line.trim()).filter(|line| !line.is_empty())
RECURSIVE trimmed_non_empty(_)
trimmed_non_empty(ls) ==
    IF ls = <<>> THEN <<>>
    ELSE (IF trim(Head(ls)) = <<>> THEN <<>> ELSE <<trim(Head(ls))>>)
         \o trimmed_non_empty(Tail(ls))

preprocessed(cs) == trimmed_non_empty(lines(cs))

\* kind tells a Grid (char_map: Vec<char>) from a ParsedGrid<Tile> (map: Vec<Tile>,
\* kept here as the characters the tiles were parsed from).
NoGrid == [kind |-> "none", char_map |-> <<>>, width |-> 0]

\* The width from_str gives the grid: the first line's length, in bytes.
first_line_width(ls) == byte_len(Head(ls))

\* impl FromStr for Grid: Err("Input is empty") when no line is left.
Grid_from_str(cs) ==
    LET ls == preprocessed(cs) IN
    IF ls = <<>> THEN Err
    ELSE Ok([kind |-> "Grid", char_map |-> Flatten(ls), width |-> first_line_width(ls)])

\* impl TryFrom<char> for Tile (day15): the characters a ParsedGrid<Tile> takes.
TileChars == {"@", "#", "O", "."}

\* impl FromStr for ParsedGrid<Tile>: as Grid, and Err when a character is no Tile.
ParsedGrid_from_str(cs) ==
    LET ls == preprocessed(cs) IN
    IF ls = <<>> THEN Err
    ELSE IF \E i \in 1..Len(Flatten(ls)) : Flatten(ls)[i] \notin TileChars THEN Err
    ELSE Ok([kind |-> "ParsedGrid", char_map |-> Flatten(ls),
             width |-> first_line_width(ls)])

----------------------------------------------------------------------------
(* util.rs: Grid::index_to_coordinate, coordinate_to_index, offset_index.  *)
(* ParsedGrid's three methods are the same code (util.rs 386-405).         *)

cell_count(g) == Len(g.char_map)

\* Indices are 0-based as in the source; char_at reads char_map[index].
char_at(g, index) == g.char_map[index + 1]

\* A slip: the quotient and the remainder exchanged.
index_to_coordinate_swapped(g, index) == <<index \div g.width, index % g.width>>

index_to_coordinate(g, index) == <<index % g.width, index \div g.width>>

\* A slip: the column test off by one (x > width instead of x >= width).
coordinate_to_index_off_by_one(g, c) ==
    LET x == c[1]
        y == c[2]
    IN  IF x < 0 \/ y < 0 \/ x > g.width THEN Err
        ELSE LET index == x + y * g.width IN
             IF index >= cell_count(g) THEN Err ELSE Ok(index)

coordinate_to_index(g, c) ==
    LET x == c[1]
        y == c[2]
    IN  IF x < 0 \/ y < 0 \/ x >= g.width THEN Err
        ELSE LET index == x + y * g.width IN
             IF index >= cell_count(g) THEN Err ELSE Ok(index)

offset_index(g, index, offset) ==
    coordinate_to_index(g, add(index_to_coordinate(g, index), offset))

----------------------------------------------------------------------------
(* util.rs: Grid::flood.                                                   *)

Node(position, distance) == [position |-> position, distance |-> distance]

is_wall(w, c) == c \in w

\* A slip: a distance that is not smaller is written too (<= for <).
RECURSIVE flood_directions_not_strict(_, _, _, _, _, _)
flood_directions_not_strict(g, w, position, distance, k, st) ==
    IF k > Len(ALL) THEN st
    ELSE LET r == offset_index(g, position, into(ALL[k])) IN
         IF /\ IsOk(r)
            /\ distance <= st.distances[r[2]]
            /\ ~is_wall(w, char_at(g, r[2]))
         THEN flood_directions_not_strict(g, w, position, distance, k + 1,
                [distances |-> [st.distances EXCEPT ![r[2]] = distance],
                 to_visit  |-> Append(st.to_visit, Node(r[2], distance))])
         ELSE flood_directions_not_strict(g, w, position, distance, k + 1, st)

\* The body of `for direction in Direction::ALL` for the directions k..4 of one
\* popped node: st = [distances, to_visit], distance already incremented.
RECURSIVE flood_directions(_, _, _, _, _, _)
flood_directions(g, w, position, distance, k, st) ==
    IF k > Len(ALL) THEN st
    ELSE LET r == offset_index(g, position, into(ALL[k])) IN
         IF /\ IsOk(r)
            /\ distance < st.distances[r[2]]
            /\ ~is_wall(w, char_at(g, r[2]))
         THEN flood_directions(g, w, position, distance, k + 1,
                [distances |-> [st.distances EXCEPT ![r[2]] = distance],
                 to_visit  |-> Append(st.to_visit, Node(r[2], distance))])
         ELSE flood_directions(g, w, position, distance, k + 1, st)

\* A slip: the popped node's distance is not incremented.
flood_step_no_increment(g, w, st) ==
    LET node == Head(st.to_visit) IN
    flood_directions(g, w, node.position, node.distance, 1,
                     [distances |-> st.distances, to_visit |-> Tail(st.to_visit)])

\* One turn of `while let Some(Node { position, distance }) = to_visit.pop_front()`.
flood_step(g, w, st) ==
    LET node == Head(st.to_visit) IN
    flood_directions(g, w, node.position, node.distance + 1, 1,
                     [distances |-> st.distances, to_visit |-> Tail(st.to_visit)])

----------------------------------------------------------------------------
(* day16.rs: State, Input, find_score, count_best_paths.                   *)

State(position, score, facing) ==
    [position |-> position, score |-> score, facing |-> facing]

\* A slip: the order looks at the score only.
greater_by_score(a, b) ==
    b.score > a.score

\* impl Ord for State: a.cmp(b) = Greater
greater(a, b) ==
    \/ b.score > a.score
    \/ b.score = a.score /\ a.position > b.position

\* The states BinaryHeap::pop may return: those no other state is greater than.
peek(h) == {s \in h : \A t \in h : ~greater(t, s)}

NoInput == [map |-> NoGrid, start |-> 0, end |-> 0]

\* iter().position(|character| *character == c): the first index holding c.
position_of(g, c) ==
    IF \E i \in 0..(cell_count(g) - 1) : char_at(g, i) = c
    THEN Some(Min({i \in 0..(cell_count(g) - 1) : char_at(g, i) = c}))
    ELSE None

\* impl FromStr for Input
Input_from_str(cs) ==
    LET g == Grid_from_str(cs) IN
    IF ~IsOk(g) THEN Err
    ELSE LET s == position_of(g[2], "S")
             e == position_of(g[2], "E")
         IN  IF s = None \/ e = None THEN Err
             ELSE Ok([map |-> g[2], start |-> s[2], end |-> e[2]])

\* A slip: a turn costs no more than a step straight on.
step_score_free_turn(score, facing, direction) ==
    score + 1

\* The score of the step from a state facing `facing` in `direction`.
step_score(score, facing, direction) ==
    IF direction = facing THEN score + 1 ELSE score + 1001

\* find_score, `for direction in Direction::ALL` for the directions k..4 of one
\* popped state: st = [scores, heap].
RECURSIVE find_score_directions(_, _, _, _, _, _)
find_score_directions(inp, position, score, facing, k, st) ==
    IF k > Len(ALL) THEN st
    ELSE LET direction == ALL[k]
             r == offset_index(inp.map, position, into(direction))
             next_state == State(r[2], step_score(score, facing, direction), direction)
         IN  IF direction = rotate180(facing)
             THEN find_score_directions(inp, position, score, facing, k + 1, st)
             ELSE IF ~IsOk(r)
             THEN find_score_directions(inp, position, score, facing, k + 1, st)
             ELSE IF char_at(inp.map, r[2]) = "#"
             THEN find_score_directions(inp, position, score, facing, k + 1, st)
             ELSE IF next_state.score < st.scores[next_state.position]
             THEN find_score_directions(inp, position, score, facing, k + 1,
                    [scores |-> [st.scores EXCEPT ![next_state.position] = next_state.score],
                     heap   |-> st.heap \cup {next_state}])
             ELSE find_score_directions(inp, position, score, facing, k + 1, st)

\* count_best_paths, the forward loop's `for direction in Direction::ALL`:
\* scores[i] = <<score, mask>>.
RECURSIVE count_directions(_, _, _, _, _, _)
count_directions(inp, position, score, facing, k, st) ==
    IF k > Len(ALL) THEN st
    ELSE LET direction == ALL[k]
             r == offset_index(inp.map, position, into(direction))
             next_state == State(r[2], step_score(score, facing, direction), direction)
             marked == [st.scores EXCEPT ![r[2]][2] =
                            bit_or(@, mask(rotate180(direction)))]
         IN  IF direction = rotate180(facing)
             THEN count_directions(inp, position, score, facing, k + 1, st)
             ELSE IF ~IsOk(r)
             THEN count_directions(inp, position, score, facing, k + 1, st)
             ELSE IF char_at(inp.map, r[2]) = "#"
             THEN count_directions(inp, position, score, facing, k + 1, st)
             ELSE IF next_state.score < marked[next_state.position][1]
             THEN count_directions(inp, position, score, facing, k + 1,
                    [scores |-> [marked EXCEPT ![next_state.position][1] = next_state.score],
                     heap   |-> st.heap \cup {next_state}])
             ELSE count_directions(inp, position, score, facing, k + 1,
                    [scores |-> marked, heap |-> st.heap])

\* count_best_paths, the backward loop's `for direction in Direction::from_mask(mask)`
\* for the directions ds of one popped element: the queue after it, or Err when
\* offset_index(..).unwrap() panics.
RECURSIVE walk_directions(_, _, _, _, _, _)
walk_directions(inp, sc, shortest_element, previous, ds, queue) ==
    IF ds = <<>> THEN Ok(queue)
    ELSE LET direction == Head(ds)
             r == offset_index(inp.map, shortest_element, into(direction))
             tolerance == IF previous = Some(direction) THEN 1000 ELSE 0
         IN  IF ~IsOk(r) THEN Err
             ELSE IF sc[r[2]][1] < sc[shortest_element][1] + tolerance
             THEN walk_directions(inp, sc, shortest_element, previous, Tail(ds),
                                  Append(queue, <<r[2], Some(direction)>>))
             ELSE walk_directions(inp, sc, shortest_element, previous, Tail(ds), queue)

----------------------------------------------------------------------------
(* SpecGrid: a text is parsed, then one operation is applied to the grid.  *)

TextAlphabet == {".", "#", Space, NewLine, TwoByteChar}
GridAlphabet == {".", "#"}

ArbitraryTexts == UNION {[1..n -> TextAlphabet] : n \in 0..MaxTextLen}

\* The text of a w-wide grid with the given cells: its rows, each ended by '\n'.
RECURSIVE render(_, _)
render(w, cells) ==
    IF cells = <<>> THEN <<>>
    ELSE SubSeq(cells, 1, w) \o <<NewLine>> \o render(w, SubSeq(cells, w + 1, Len(cells)))

Shapes(n) == {wh \in (1..n) \X (1..n) : wh[1] * wh[2] <= n}

GridTexts ==
    UNION {{render(wh[1], cells) : cells \in [1..(wh[1] * wh[2]) -> GridAlphabet]} :
           wh \in Shapes(MaxCells)}

InputTexts == ArbitraryTexts \cup GridTexts

NoCall == [op |-> "none", index |-> 0, coordinate |-> <<0, 0>>, ret |-> Err]

gridIdle ==
    /\ text = <<>> /\ gpc = "idle" /\ grid = NoGrid /\ call = NoCall
    /\ start = 0 /\ walls = {} /\ to_visit = <<>> /\ distances = <<>>

day16Idle ==
    /\ raw_input = <<>> /\ pc16 = "idle" /\ input = NoInput
    /\ scores = <<>> /\ heap = {} /\ result1 = None
    /\ shortest_path = <<>> /\ shortest_map = <<>> /\ result2 = 0

day21Idle ==
    /\ raw_codes = <<>> /\ pc21 = "idle" /\ codes = <<>> /\ line = 0 /\ code_num = 0
    /\ generation = 0 /\ current = <<>> /\ next = <<>> /\ lengths = <<>> /\ sum = 0
    /\ result21 = 0

day10Idle ==
    /\ raw_map = <<>> /\ pc10 = "idle" /\ heights = NoGrid /\ counters = <<>>
    /\ tasks = <<>> /\ awaited = 0 /\ writes = <<>> /\ result10_1 = 0 /\ result10_2 = 0

mainIdle ==
    /\ pcMain = "idle" /\ spawned = 0 /\ input_dir = "absent" /\ day_pc = <<>>
    /\ checked = 0 /\ chain = <<>> /\ main_result = <<>>

day19Idle ==
    /\ pc19 = "idle" /\ pattern_cache = <<>> /\ invocations = 0 /\ last_call = <<>>

day18Idle ==
    /\ pc18 = "idle" /\ shape18 = <<0, 0>> /\ initial18 = 0 /\ byte_locations = <<>>
    /\ memory = NoGrid /\ byte_distances = <<>> /\ fallen = 0 /\ result18 = <<>>

day7Idle ==
    /\ pc7 = "idle" /\ equation = <<>> /\ operators = <<>> /\ equations = <<>>
    /\ solved = FALSE

day20Idle ==
    /\ pc20 = "idle" /\ track_text = <<>> /\ save = 0 /\ racetrack = NoInput
    /\ flooded = <<>> /\ anchor = 0 /\ yielded = <<>> /\ skips = 0 /\ result20 = 0

day6Idle ==
    /\ pc6 = "idle" /\ guard_text = <<>> /\ guard_input = <<>> /\ map = <<>>
    /\ visited = <<>> /\ steps = 0 /\ result6 = <<>>

part2Idle ==
    /\ pcP2 = "idle" /\ line2 = 0 /\ code_num2 = 0 /\ generation2 = 0 /\ current2 = <<>>
    /\ next2 = <<>> /\ min_length2 = 0 /\ applied2 = 0 /\ produced = {} /\ sum2 = 0
    /\ result22 = 0

keysIdle ==
    /\ pcK = "idle" /\ keypad = "" /\ route_from = <<0, 0>> /\ route_to = <<0, 0>>
    /\ returned_route = [kind |-> "Empty", count |-> 0, first |-> <<"North", 0>>,
                         second |-> <<"North", 0>>, reversible |-> FALSE]
    /\ plan = <<>> /\ expansion = <<>> /\ sim_steps = <<>>
    /\ sim_position = <<0, 0>> /\ simulated = <<>>

\* Every part of the program but the named one is idle.
OthersIdle(part) ==
    /\ IF part = "grid" THEN TRUE ELSE gridIdle
    /\ IF part = "day16" THEN TRUE ELSE day16Idle
    /\ IF part = "day21" THEN TRUE ELSE day21Idle
    /\ IF part = "day10" THEN TRUE ELSE day10Idle
    /\ IF part = "main" THEN TRUE ELSE mainIdle
    /\ IF part = "day19" THEN TRUE ELSE day19Idle
    /\ IF part = "day18" THEN TRUE ELSE day18Idle
    /\ IF part = "day7" THEN TRUE ELSE day7Idle
    /\ IF part = "day20" THEN TRUE ELSE day20Idle
    /\ IF part = "day6" THEN TRUE ELSE day6Idle
    /\ IF part = "part2" THEN TRUE ELSE part2Idle
    /\ IF part = "keys" THEN TRUE ELSE keysIdle

InitGrid ==
    /\ text \in InputTexts
    /\ gpc = "text"
    /\ grid = NoGrid /\ call = NoCall
    /\ start = 0 /\ walls = {} /\ to_visit = <<>> /\ distances = <<>>
    /\ OthersIdle("grid")

\* s.parse::<Grid>() / s.parse::<ParsedGrid<Tile>>()
Parse(from_str_result) ==
    /\ gpc = "text"
    /\ IF IsOk(from_str_result)
       THEN grid' = from_str_result[2] /\ gpc' = "grid"
       ELSE grid' = grid /\ gpc' = "parse_error"
    /\ UNCHANGED <<text, call, start, walls, to_visit, distances, outsideGrid>>

ParseGrid == Parse(Grid_from_str(text))
ParseParsedGrid == Parse(ParsedGrid_from_str(text))

Indices(g) == 0..(cell_count(g) - 1)
height(g) == (cell_count(g) + g.width - 1) \div g.width
Coordinates(g) ==
    ((0 - CoordSlack)..(g.width + CoordSlack)) \X ((0 - CoordSlack)..(height(g) + CoordSlack))
Offsets == ((0 - CoordSlack)..CoordSlack) \X ((0 - CoordSlack)..CoordSlack)

\* grid.index_to_coordinate(index), for a valid index
IndexToCoordinate ==
    /\ gpc = "grid"
    /\ \E index \in Indices(grid) :
         call' = [op |-> "index_to_coordinate", index |-> index,
                  coordinate |-> index_to_coordinate(grid, index), ret |-> Err]
    /\ gpc' = "coordinate"
    /\ UNCHANGED <<text, grid, start, walls, to_visit, distances, outsideGrid>>

\* grid.coordinate_to_index(c) on the coordinate index_to_coordinate returned
CoordinateToIndexBack ==
    /\ gpc = "coordinate"
    /\ call' = [call EXCEPT !.op = "round_trip",
                            !.ret = coordinate_to_index(grid, call.coordinate)]
    /\ gpc' = "called"
    /\ UNCHANGED <<text, grid, start, walls, to_visit, distances, outsideGrid>>

\* grid.coordinate_to_index(c), for any coordinate
CoordinateToIndex ==
    /\ gpc = "grid"
    /\ \E c \in Coordinates(grid) :
         call' = [op |-> "coordinate_to_index", index |-> 0, coordinate |-> c,
                  ret |-> coordinate_to_index(grid, c)]
    /\ gpc' = "called"
    /\ UNCHANGED <<text, grid, start, walls, to_visit, distances, outsideGrid>>

\* grid.offset_index(index, offset), for a valid index
OffsetIndex ==
    /\ gpc = "grid"
    /\ \E index \in Indices(grid), offset \in Offsets :
         call' = [op |-> "offset_index", index |-> index, coordinate |-> offset,
                  ret |-> offset_index(grid, index, offset)]
    /\ gpc' = "called"
    /\ UNCHANGED <<text, grid, start, walls, to_visit, distances, outsideGrid>>

\* grid.flood(start, is_wall) up to its loop: util.rs 298-300
FloodStart ==
    /\ gpc = "grid" /\ grid.kind = "Grid"
    /\ \E s \in Indices(grid), w \in SUBSET GridAlphabet :
         /\ start' = s
         /\ walls' = w
         /\ to_visit' = <<Node(s, 0)>>
         /\ distances' = [i \in Indices(grid) |-> IF i = s THEN 0 ELSE USIZE_MAX]
    /\ gpc' = "flood"
    /\ UNCHANGED <<text, grid, call, outsideGrid>>

\* one turn of flood's while loop: util.rs 302-312
FloodPop ==
    /\ gpc = "flood" /\ to_visit # <<>>
    /\ LET st == flood_step(grid, walls, [distances |-> distances, to_visit |-> to_visit])
       IN  distances' = st.distances /\ to_visit' = st.to_visit
    /\ UNCHANGED <<text, gpc, grid, call, start, walls, outsideGrid>>

\* the queue is empty: flood returns distances (util.rs 314)
FloodReturn ==
    /\ gpc = "flood" /\ to_visit = <<>>
    /\ gpc' = "flooded"
    /\ UNCHANGED <<text, grid, call, start, walls, to_visit, distances, outsideGrid>>

NextGrid ==
    \/ ParseGrid
    \/ ParseParsedGrid
    \/ IndexToCoordinate
    \/ CoordinateToIndexBack
    \/ CoordinateToIndex
    \/ OffsetIndex
    \/ FloodStart
    \/ FloodPop
    \/ FloodReturn

SpecGrid == InitGrid /\ [][NextGrid]_vars

----------------------------------------------------------------------------
(* SpecDay16: day16 run() on a maze: parse, process_part1, process_part2.  *)

\* The text of a fixture given by its rows.
RECURSIVE rows_text(_)
rows_text(rows) ==
    IF rows = <<>> THEN <<>>
    ELSE Chars(Head(rows)) \o <<NewLine>> \o rows_text(Tail(rows))

\* day16.rs test::example_1_input
Example1 == rows_text(<<
    "###############",
    "#.......#....E#",
    "#.#.###.#.###.#",
    "#.....#.#...#.#",
    "#.###.#####.#.#",
    "#.#.#.......#.#",
    "#.#.#####.###.#",
    "#...........#.#",
    "###.#.#####.#.#",
    "#...#.....#.#.#",
    "#.#.#.###.#.#.#",
    "#.....#...#.#.#",
    "#.###.#.#.#.#.#",
    "#S..#.....#...#",
    "###############">>)

\* day16.rs test::example_2_input
Example2 == rows_text(<<
    "#################",
    "#...#...#...#..E#",
    "#.#.#.#.#.#.#.#.#",
    "#.#.#.#...#...#.#",
    "#.#.#.#.###.#.#.#",
    "#...#.#.#.....#.#",
    "#.#.#.#.#.#####.#",
    "#.#...#.#.#.....#",
    "#.#.#####.#.###.#",
    "#.#.#.......#...#",
    "#.#.###.#####.###",
    "#.#.#...#.....#.#",
    "#.#.#.#####.###.#",
    "#.#.#.........#.#",
    "#.#.#.#########.#",
    "#S#.............#",
    "#################">>)

\* A maze in which the cheapest arrival at a cell faces the wrong way: the cell
\* below 'E' is first reached heading west (2007), and the arrival heading north
\* (3005), which is the one that goes on to 'E' without a further turn, is dropped.
TurnMaze == rows_text(<<
    "E..#",
    "....",
    ".##.",
    "....",
    "..S.">>)

FixtureMazes == {Example1, Example2, TurnMaze}

place(base, s, e) ==
    [i \in DOMAIN base |-> IF i = s THEN "S" ELSE IF i = e THEN "E" ELSE base[i]]

\* Every maze of at most MaxMazeCells cells with one 'S', one 'E', and each
\* other cell open or a wall.
MazesUpTo(n) ==
    UNION {{render(wh[1], place(base, se[1], se[2])) :
                base \in [1..(wh[1] * wh[2]) -> GridAlphabet],
                se \in {p \in (1..(wh[1] * wh[2])) \X (1..(wh[1] * wh[2])) : p[1] # p[2]}} :
           wh \in Shapes(n)}

SmallMazes == MazesUpTo(MaxMazeCells)

MazeTexts == FixtureMazes \cup SmallMazes

InitDay16 ==
    /\ raw_input \in MazeTexts
    /\ pc16 = "input" /\ input = NoInput
    /\ scores = <<>> /\ heap = {} /\ result1 = None
    /\ shortest_path = <<>> /\ shortest_map = <<>> /\ result2 = 0
    /\ OthersIdle("day16")

cells(inp) == 0..(cell_count(inp.map) - 1)

\* run(): let input = raw_input.parse()?
ParseInput ==
    /\ pc16 = "input"
    /\ LET r == Input_from_str(raw_input) IN
       IF IsOk(r) THEN input' = r[2] /\ pc16' = "part1"
       ELSE input' = input /\ pc16' = "parse_error"
    /\ UNCHANGED <<raw_input, scores, heap, result1, shortest_path, shortest_map,
                   result2, outsideDay16>>

\* find_score up to its loop: day16.rs 44-48
FindScoreStart ==
    /\ pc16 = "part1"
    /\ scores' = [i \in cells(input) |-> IF i = input.start THEN 0 ELSE USIZE_MAX]
    /\ heap' = {State(input.start, 0, East)}
    /\ pc16' = "find_score"
    /\ UNCHANGED <<raw_input, input, result1, shortest_path, shortest_map, result2,
                   outsideDay16>>

\* one turn of find_score's while loop: day16.rs 50-81
FindScorePop ==
    /\ pc16 = "find_score"
    /\ \E top \in peek(heap) :
         IF top.position = input.end
         THEN /\ result1' = Some(top.score)
              /\ pc16' = "part2"
              /\ heap' = heap \ {top}
              /\ scores' = scores
         ELSE IF top.score > scores[top.position]
         THEN /\ heap' = heap \ {top}
              /\ UNCHANGED <<scores, result1, pc16>>
         ELSE LET st == find_score_directions(input, top.position, top.score, top.facing,
                            1, [scores |-> scores, heap |-> heap \ {top}])
              IN  /\ scores' = st.scores
                  /\ heap' = st.heap
                  /\ UNCHANGED <<result1, pc16>>
    /\ UNCHANGED <<raw_input, input, shortest_path, shortest_map, result2, outsideDay16>>

\* the heap is empty: find_score returns None (day16.rs 83) and process_part1's
\* unwrap() panics (day16.rs 215)
FindScoreNone ==
    /\ pc16 = "find_score" /\ heap = {}
    /\ result1' = None
    /\ pc16' = "panic"
    /\ UNCHANGED <<raw_input, input, scores, heap, shortest_path, shortest_map, result2,
                   outsideDay16>>

\* count_best_paths up to its forward loop: day16.rs 87-91
CountStart ==
    /\ pc16 = "part2"
    /\ scores' = [i \in cells(input) |->
                    IF i = input.start THEN <<0, 0>> ELSE <<USIZE_MAX, 0>>]
    /\ heap' = {State(input.start, 0, East)}
    /\ pc16' = "count_forward"
    /\ UNCHANGED <<raw_input, input, result1, shortest_path, shortest_map, result2,
                   outsideDay16>>

\* the forward loop is left: day16.rs 142-143
walk_start ==
    /\ shortest_path' = <<<<input.end, None>>>>
    /\ shortest_map' = [i \in cells(input) |-> FALSE]
    /\ pc16' = "count_backward"

\* one turn of count_best_paths' forward loop: day16.rs 95-141
CountForwardPop ==
    /\ pc16 = "count_forward"
    /\ \E top \in peek(heap) :
         IF top.score > scores[input.end][1]
         THEN /\ heap' = heap \ {top}
              /\ scores' = scores
              /\ walk_start
         ELSE IF top.score > scores[top.position][1]
         THEN /\ heap' = heap \ {top}
              /\ UNCHANGED <<scores, shortest_path, shortest_map, pc16>>
         ELSE LET st == count_directions(input, top.position, top.score, top.facing,
                            1, [scores |-> scores, heap |-> heap \ {top}])
              IN  /\ scores' = st.scores
                  /\ heap' = st.heap
                  /\ UNCHANGED <<shortest_path, shortest_map, pc16>>
    /\ UNCHANGED <<raw_input, input, result1, result2, outsideDay16>>

\* the heap is empty: the forward loop ends
CountForwardEmpty ==
    /\ pc16 = "count_forward" /\ heap = {}
    /\ walk_start
    /\ UNCHANGED <<raw_input, input, scores, heap, result1, result2, outsideDay16>>

\* one turn of count_best_paths' backward loop: day16.rs 145-175
CountBackwardPop ==
    /\ pc16 = "count_backward" /\ shortest_path # <<>>
    /\ LET shortest_element == Head(shortest_path)[1]
           previous == Head(shortest_path)[2]
           r == walk_directions(input, scores, shortest_element, previous,
                                from_mask(scores[shortest_element][2]),
                                Tail(shortest_path))
       IN  /\ shortest_map' = [shortest_map EXCEPT ![shortest_element] = TRUE]
           /\ IF IsOk(r) THEN shortest_path' = r[2] /\ pc16' = pc16
              ELSE shortest_path' = Tail(shortest_path) /\ pc16' = "panic"
    /\ UNCHANGED <<raw_input, input, scores, heap, result1, result2, outsideDay16>>

\* the queue is empty: count_best_paths returns the count (day16.rs 190)
CountReturn ==
    /\ pc16 = "count_backward" /\ shortest_path = <<>>
    /\ result2' = Cardinality({i \in cells(input) : shortest_map[i]})
    /\ pc16' = "done"
    /\ UNCHANGED <<raw_input, input, scores, heap, result1, shortest_path, shortest_map,
                   outsideDay16>>

NextDay16 ==
    \/ ParseInput
    \/ FindScoreStart
    \/ FindScorePop
    \/ FindScoreNone
    \/ CountStart
    \/ CountForwardPop
    \/ CountForwardEmpty
    \/ CountBackwardPop
    \/ CountReturn

SpecDay16 == InitDay16 /\ [][NextDay16]_vars

----------------------------------------------------------------------------
(* day21.rs: keypads, Leg, Route, Combination, Combinations.               *)

Leg(direction, distance) == <<direction, distance>>
NoLeg == <<North, 0>>

\* enum Route: the fields a variant does not have are kept at NoLeg, 0, FALSE.
Empty(count) ==
    [kind |-> "Empty", count |-> count, first |-> NoLeg, second |-> NoLeg,
     reversible |-> FALSE]
Direct(leg) ==
    [kind |-> "Direct", count |-> 0, first |-> leg, second |-> NoLeg,
     reversible |-> FALSE]
Segmented(first, second, reversible) ==
    [kind |-> "Segmented", count |-> 0, first |-> first, second |-> second,
     reversible |-> reversible]

\* Route::len
route_len(route) ==
    CASE route.kind = "Empty"     -> route.count
      [] route.kind = "Direct"    -> route.first[2] + 1
      [] route.kind = "Segmented" -> route.first[2] + route.second[2] + 1

\* Route::reversible
is_reversible(route) == route.kind = "Segmented" /\ route.reversible

\* Route::reverse, called on reversible routes only
reverse(route) == Segmented(route.second, route.first, TRUE)

repeat(c, n) == [i \in 1..n |-> c]

\* A slip: the 'A' that ends a route is not yielded.
route_chars_without_press(route) ==
    CASE route.kind = "Empty"     -> repeat("A", route.count)
      [] route.kind = "Direct"    -> repeat(symbol(route.first[1]), route.first[2])
      [] route.kind = "Segmented" ->
            repeat(symbol(route.first[1]), route.first[2])
            \o repeat(symbol(route.second[1]), route.second[2])

\* Route::chars, collected: what RouteChars yields until it returns None.
route_chars(route) ==
    CASE route.kind = "Empty"     -> repeat("A", route.count)
      [] route.kind = "Direct"    ->
            repeat(symbol(route.first[1]), route.first[2]) \o <<"A">>
      [] route.kind = "Segmented" ->
            repeat(symbol(route.first[1]), route.first[2])
            \o repeat(symbol(route.second[1]), route.second[2]) \o <<"A">>

DigitChars == <<"0", "1", "2", "3", "4", "5", "6", "7", "8", "9">>
is_digit(c) == \E i \in DOMAIN DigitChars : DigitChars[i] = c
digit_value(c) == (CHOOSE i \in DOMAIN DigitChars : DigitChars[i] = c) - 1

\* str::parse::<usize>() on a string of the model's alphabet: Err unless it is a
\* non-empty run of digits.
RECURSIVE parse_digits(_, _)
parse_digits(cs, acc) ==
    IF cs = <<>> THEN acc ELSE parse_digits(Tail(cs), acc * 10 + digit_value(Head(cs)))
parse_usize(cs) ==
    IF cs = <<>> \/ \E i \in DOMAIN cs : ~is_digit(cs[i]) THEN Err
    ELSE Ok(parse_digits(cs, 0))

\* NumericKeypad::START, DirectionalKeypad::START
NumericSTART == <<2, 3>>
DirectionalSTART == <<2, 0>>

NumericKeys == {"A"} \cup {DigitChars[i] : i \in DOMAIN DigitChars}
DirectionalKeys == {"^", "A", "<", "v", ">"}

\* NumericKeypad::input_to_coordinate, for the keys; any other input panics.
numeric_input_to_coordinate(c) ==
    IF c = "A" THEN <<2, 3>>
    ELSE IF c = "0" THEN <<1, 3>>
    ELSE LET n == digit_value(c) - 1 IN <<n % 3, 2 - (n \div 3)>>

\* DirectionalKeypad::input_to_coordinate, for the keys; any other input panics.
directional_input_to_coordinate(c) ==
    CASE c = "^" -> <<1, 0>>
      [] c = "A" -> <<2, 0>>
      [] c = "<" -> <<0, 1>>
      [] c = "v" -> <<1, 1>>
      [] c = ">" -> <<2, 1>>

\* NumericKeypad::coordinate_to_input: Err stands for the panic.
numeric_coordinate_to_input(c) ==
    IF c[1] < 0 \/ c[1] > 2 \/ c[2] < 0 \/ c[2] > 3 \/ (c[1] = 0 /\ c[2] = 3) THEN Err
    ELSE Ok(<< <<"7", "8", "9">>, <<"4", "5", "6">>, <<"1", "2", "3">>,
               <<" ", "0", "A">> >>[c[2] + 1][c[1] + 1])

\* DirectionalKeypad::coordinate_to_input: Err stands for the panic.
directional_coordinate_to_input(c) ==
    IF \E k \in DirectionalKeys : directional_input_to_coordinate(k) = c
    THEN Ok(CHOOSE k \in DirectionalKeys : directional_input_to_coordinate(k) = c)
    ELSE Err

\* The inner match of both route_to_coordinate functions on the distance.
route_for_distance(distance) ==
    LET x == distance[1]
        y == distance[2]
        x_leg == IF x < 0 THEN Leg(West, -x) ELSE Leg(East, x)
        y_leg == IF y < 0 THEN Leg(North, -y) ELSE Leg(South, y)
    IN  IF x = 0 /\ y = 0 THEN Empty(1)
        ELSE IF y = 0 THEN Direct(x_leg)
        ELSE IF x = 0 THEN Direct(y_leg)
        ELSE Segmented(x_leg, y_leg, TRUE)

\* A slip: the routes around the gap are forgotten.
numeric_route_ignoring_gap(from, to) == route_for_distance(sub(to, from))

\* NumericKeypad::route_to_coordinate
numeric_route_to_coordinate(from, to) ==
    LET distance == sub(to, from) IN
    IF from[1] = 0 /\ to[2] = 3
    THEN Segmented(Leg(East, Abs(distance[1])), Leg(South, Abs(distance[2])), FALSE)
    ELSE IF from[2] = 3 /\ to[1] = 0
    THEN Segmented(Leg(North, Abs(distance[2])), Leg(West, Abs(distance[1])), FALSE)
    ELSE route_for_distance(distance)

\* DirectionalKeypad::route_to_coordinate
directional_route_to_coordinate(from, to) ==
    LET distance == sub(to, from) IN
    IF from[1] = 0 /\ to[2] = 0
    THEN Segmented(Leg(East, Abs(distance[1])), Leg(North, Abs(distance[2])), FALSE)
    ELSE IF from[2] = 0 /\ to[1] = 0
    THEN Segmented(Leg(South, Abs(distance[2])), Leg(West, Abs(distance[1])), FALSE)
    ELSE route_for_distance(distance)

\* NumericKeypad::new(code.chars()).collect(): one route per character, from
\* the key before it (START at first).
RECURSIVE numeric_routes(_, _)
numeric_routes(to_type, position) ==
    IF to_type = <<>> THEN <<>>
    ELSE LET target == numeric_input_to_coordinate(Head(to_type)) IN
         <<numeric_route_to_coordinate(position, target)>>
         \o numeric_routes(Tail(to_type), target)

\* A slip: a key that is to be pressed several times in a row is pressed once.
directional_next_single_press(route) ==
    IF route.kind = "Empty" THEN <<route>>
    ELSE IF route.kind = "Direct"
    THEN LET target == directional_input_to_coordinate(symbol(route.first[1])) IN
         <<directional_route_to_coordinate(DirectionalSTART, target),
           directional_route_to_coordinate(target, DirectionalSTART)>>
    ELSE LET target1 == directional_input_to_coordinate(symbol(route.first[1]))
             target2 == directional_input_to_coordinate(symbol(route.second[1]))
         IN  <<directional_route_to_coordinate(DirectionalSTART, target1),
               directional_route_to_coordinate(target1, target2),
               directional_route_to_coordinate(target2, DirectionalSTART)>>

\* The routes one source route makes DirectionalKeypad::next yield, in the
\* order they are popped off its queue.
directional_next(route) ==
    IF route.kind = "Empty" THEN <<route>>
    ELSE IF route.kind = "Direct"
    THEN LET target == directional_input_to_coordinate(symbol(route.first[1])) IN
         <<directional_route_to_coordinate(DirectionalSTART, target)>>
         \o (IF route.first[2] > 1 THEN <<Empty(route.first[2] - 1)>> ELSE <<>>)
         \o <<directional_route_to_coordinate(target, DirectionalSTART)>>
    ELSE LET target1 == directional_input_to_coordinate(symbol(route.first[1]))
             target2 == directional_input_to_coordinate(symbol(route.second[1]))
         IN  <<directional_route_to_coordinate(DirectionalSTART, target1)>>
             \o (IF route.first[2] > 1 THEN <<Empty(route.first[2] - 1)>> ELSE <<>>)
             \o <<directional_route_to_coordinate(target1, target2)>>
             \o (IF route.second[2] > 1 THEN <<Empty(route.second[2] - 1)>> ELSE <<>>)
             \o <<directional_route_to_coordinate(target2, DirectionalSTART)>>

\* DirectionalKeypad::new(source).collect()
RECURSIVE directional_routes(_)
directional_routes(source) ==
    IF source = <<>> THEN <<>>
    ELSE directional_next(Head(source)) \o directional_routes(Tail(source))

\* A Combination iterated to its end: the routes it yields from parts[k..],
\* current_variance carried along. current_variance is shifted only when the
\* route is yielded as it is.
RECURSIVE combination_routes(_, _, _, _)
combination_routes(parts, variants, k, current_variance) ==
    IF k > Len(parts) THEN <<>>
    ELSE LET route == parts[k] IN
         IF is_reversible(route)
         THEN IF has_bit(variants, current_variance)
              THEN <<reverse(route)>>
                   \o combination_routes(parts, variants, k + 1, current_variance)
              ELSE <<route>>
                   \o combination_routes(parts, variants, k + 1, current_variance * 2)
         ELSE <<route>> \o combination_routes(parts, variants, k + 1, current_variance)

\* Combination::new(parts, variants) iterated
Combination(parts, variants) == combination_routes(parts, variants, 1, 1)

\* Combination::len: the sum of the parts' lengths
combination_len(parts) == SumSeq([k \in DOMAIN parts |-> route_len(parts[k])])

\* Combinations::new: max
combinations_max(parts) ==
    LET combinations == Cardinality({k \in DOMAIN parts : is_reversible(parts[k])})
    IN  IF combinations > 0 THEN 2 ^ (combinations - 1) ELSE 0

\* What Combinations::new(parts) yields, the Combinations with variants
\* 0, 1, .., max in this order, as one run: they share parts and len, and a
\* Vec<Combination> is kept as the sequence of its runs.
Combos(parts) ==
    [parts |-> parts, len |-> combination_len(parts), count |-> combinations_max(parts) + 1]

\* One turn of `while let Some(combination) = current.pop()`: st = [current, next].
expand_pop(st) ==
    LET last == st.current[Len(st.current)]
        front == SubSeq(st.current, 1, Len(st.current) - 1)
        popped == IF last.count = 1 THEN front
                  ELSE Append(front, [last EXCEPT !.count = last.count - 1])
        combination == Combination(last.parts, last.count - 1)
        min_length == IF st.next = <<>> THEN USIZE_MAX
                      ELSE Min({st.next[i].len : i \in DOMAIN st.next})
        combinations == Combos(directional_routes(combination))
        new_min_length == combinations.len
    IN  IF new_min_length > min_length
        THEN [current |-> popped, next |-> st.next]
        ELSE IF st.next = <<>> \/ min_length = new_min_length
        THEN [current |-> popped, next |-> Append(st.next, combinations)]
        ELSE [current |-> popped, next |-> <<combinations>>]

\* for generation in 0..2
Generations == 2
\* The array process_part1 zips the codes with has five solutions.
Solutions == 5

\* The codes the map of process_part1 runs on.
zipped(cs) == Min({Len(cs), Solutions})

\* current.first().unwrap().clone().flat_map(|route| route.chars()).collect()
result_string(cur) == Flatten([k \in DOMAIN Combination(cur[1].parts, 0) |->
                                 route_chars(Combination(cur[1].parts, 0)[k])])

\* The closure of process_part1 from `let parts` to `let result`, on one code.
RECURSIVE expand_all(_)
expand_all(st) == IF st.current = <<>> THEN st ELSE expand_all(expand_pop(st))

RECURSIVE run_generations(_, _)
run_generations(st, g) ==
    IF g = Generations THEN st
    ELSE LET e == expand_all(st) IN
         run_generations([current |-> e.next, next |-> e.current], g + 1)

\* result.len() for one code
keystroke_count(code) ==
    Len(result_string(run_generations(
            [current |-> <<Combos(numeric_routes(code, NumericSTART))>>, next |-> <<>>],
            0).current))

\* code[0..code.len() - 1].parse()
numeric_prefix(code) == parse_usize(SubSeq(code, 1, Len(code) - 1))

----------------------------------------------------------------------------
(* SpecDay21, SpecCode: day21 run(): parse the codes, process_part1.       *)

\* Most lines of the inputs made of SmallCodes.
MaxLines == 6
\* Most digits of the single codes of SpecCode (all of them, followed by 'A').
MaxDigits == 2

join_lines(ls) == Flatten([i \in DOMAIN ls |-> ls[i] \o <<NewLine>>])

\* day21.rs test::example_input
ExampleCodes == <<Chars("029A"), Chars("980A"), Chars("179A"), Chars("456A"), Chars("379A")>>
ExampleInput ==
    Chars("029A") \o <<NewLine>>
    \o Chars("          980A") \o <<NewLine>>
    \o Chars("          179A") \o <<NewLine>>
    \o Chars("          456A") \o <<NewLine>>
    \o Chars("          379A") \o <<NewLine>>
    \o Chars("          ")

SmallCodes == {Chars("1A"), Chars("2A")}
CodeLists == UNION {[1..n -> SmallCodes] : n \in 0..MaxLines}

\* A code whose shortest typing needs a reversed route after a route that was
\* reversed too.
HardCode == Chars("530A")

DigitCodes ==
    UNION {{ds \o <<"A">> : ds \in [1..n -> NumericKeys \ {"A"}]} : n \in 1..MaxDigits}
SingleCodes == DigitCodes \cup {ExampleCodes[i] : i \in DOMAIN ExampleCodes} \cup {HardCode}

day21Start ==
    /\ pc21 = "input" /\ codes = <<>> /\ line = 0 /\ code_num = 0 /\ generation = 0
    /\ current = <<>> /\ next = <<>> /\ lengths = <<>> /\ sum = 0 /\ result21 = 0

InitDay21 ==
    /\ raw_codes \in {ExampleInput} \cup {join_lines(ls) : ls \in CodeLists}
    /\ day21Start
    /\ OthersIdle("day21")

InitCode ==
    /\ raw_codes \in {join_lines(<<code>>) : code \in SingleCodes}
    /\ day21Start
    /\ OthersIdle("day21")

\* run(): let input = raw_input.parse()?, then process_part1 up to its map
ParseCodes ==
    /\ pc21 = "input"
    /\ codes' = preprocessed(raw_codes)
    /\ line' = 1
    /\ sum' = 0
    /\ pc21' = "code"
    /\ UNCHANGED <<raw_codes, code_num, generation, current, next, lengths, result21,
                   outsideDay21>>

\* the closure up to its generation loop: day21.rs 503-514. parse().unwrap()
\* and input_to_coordinate panic on a code that is not digits and a last key.
StartCode ==
    /\ pc21 = "code" /\ line <= zipped(codes)
    /\ LET code == codes[line] IN
       IF ~IsOk(numeric_prefix(code)) \/ \E i \in DOMAIN code : code[i] \notin NumericKeys
       THEN pc21' = "panic" /\ UNCHANGED <<code_num, generation, current, next>>
       ELSE /\ code_num' = numeric_prefix(code)[2]
            /\ current' = <<Combos(numeric_routes(code, NumericSTART))>>
            /\ next' = <<>>
            /\ generation' = 0
            /\ pc21' = "expand"
    /\ UNCHANGED <<raw_codes, codes, line, lengths, sum, result21, outsideDay21>>

\* one turn of `while let Some(combination) = current.pop()`: day21.rs 519-537
ExpandPop ==
    /\ pc21 = "expand" /\ current # <<>>
    /\ LET st == expand_pop([current |-> current, next |-> next]) IN
       current' = st.current /\ next' = st.next
    /\ UNCHANGED <<raw_codes, pc21, codes, line, code_num, generation, lengths, sum,
                   result21, outsideDay21>>

\* current is empty: std::mem::swap(&mut current, &mut next), next generation
EndGeneration ==
    /\ pc21 = "expand" /\ current = <<>>
    /\ current' = next /\ next' = current
    /\ generation' = generation + 1
    /\ pc21' = IF generation + 1 = Generations THEN "result" ELSE "expand"
    /\ UNCHANGED <<raw_codes, codes, line, code_num, lengths, sum, result21,
                   outsideDay21>>

\* the closure from `let result` on: day21.rs 545-562; first().unwrap() panics
\* on an empty current
FinishCode ==
    /\ pc21 = "result"
    /\ IF current = <<>>
       THEN pc21' = "panic" /\ UNCHANGED <<lengths, sum, line>>
       ELSE /\ lengths' = Append(lengths, Len(result_string(current)))
            /\ sum' = sum + code_num * Len(result_string(current))
            /\ line' = line + 1
            /\ pc21' = "code"
    /\ UNCHANGED <<raw_codes, codes, code_num, generation, current, next, result21,
                   outsideDay21>>

\* the zip is exhausted: .sum() and Ok(result)
ReturnSum ==
    /\ pc21 = "code" /\ line > zipped(codes)
    /\ result21' = sum
    /\ pc21' = "done"
    /\ UNCHANGED <<raw_codes, codes, line, code_num, generation, current, next, lengths,
                   sum, outsideDay21>>

NextDay21 ==
    \/ ParseCodes
    \/ StartCode
    \/ ExpandPop
    \/ EndGeneration
    \/ FinishCode
    \/ ReturnSum

SpecDay21 == InitDay21 /\ [][NextDay21]_vars

SpecCode == InitCode /\ [][NextDay21]_vars

----------------------------------------------------------------------------
(* day10.rs: Height, Input, the per-trail-end tasks of process_part1/2.    *)

\* Height::MIN, Height::MAX
HeightMIN == 0
HeightMAX == 9

\* impl TryFrom<char> for Height accepts '0'..='9'.
\* impl FromStr for ParsedGrid<Height>: Err on an empty input or on a
\* character that is no height.
HeightGrid_from_str(cs) ==
    LET ls == preprocessed(cs) IN
    IF ls = <<>> THEN Err
    ELSE IF \E i \in 1..Len(Flatten(ls)) : ~is_digit(Flatten(ls)[i]) THEN Err
    ELSE Ok([kind |-> "ParsedGrid", char_map |-> Flatten(ls),
             width |-> first_line_width(ls)])

\* MapPosition::height
height_at(g, position) == digit_value(char_at(g, position))

\* Input::trail_ends / Input::trail_heads: the positions, in index order.
RECURSIVE positions_of_height(_, _, _)
positions_of_height(g, h, from) ==
    IF from >= cell_count(g) THEN <<>>
    ELSE (IF height_at(g, from) = h THEN <<from>> ELSE <<>>)
         \o positions_of_height(g, h, from + 1)
trail_ends(g) == positions_of_height(g, HeightMAX, 0)
trail_heads(g) == positions_of_height(g, HeightMIN, 0)

\* A slip: only the first neighbour one lower is taken.
RECURSIVE one_lower_first_only(_, _, _)
one_lower_first_only(g, position, k) ==
    IF k > Len(ALL) THEN <<>>
    ELSE LET r == offset_index(g, position, into(ALL[k])) IN
         IF IsOk(r) /\ height_at(g, r[2]) = height_at(g, position) - 1
         THEN <<r[2]>>
         ELSE one_lower_first_only(g, position, k + 1)

\* `for direction in Coordinate::CARDINALITIES`: the neighbours, from direction
\* k on, whose height is new_height = height - 1, in the order they are pushed.
RECURSIVE one_lower(_, _, _)
one_lower(g, position, k) ==
    IF k > Len(ALL) THEN <<>>
    ELSE LET r == offset_index(g, position, into(ALL[k])) IN
         (IF IsOk(r) /\ height_at(g, r[2]) = height_at(g, position) - 1
          THEN <<r[2]>> ELSE <<>>)
         \o one_lower(g, position, k + 1)

\* A spawned task before its first turn.
Task(position) ==
    [position |-> position, positions |-> <<position>>, seen_position |-> {}]

\* One turn of a task's `while let Some(current_position) = positions.pop_front()`:
\* the task after it, and the index it did fetch_add(1) on, if any. Part 1
\* skips a position it has seen; part 2 has no seen_position.
task_turn(g, part, task) ==
    LET current_position == Head(task.positions)
        rest == Tail(task.positions)
    IN  IF part = 1 /\ current_position \in task.seen_position
        THEN [task |-> [task EXCEPT !.positions = rest], wrote |-> None]
        ELSE LET seen == IF part = 1 THEN task.seen_position \cup {current_position}
                         ELSE task.seen_position
                 pushed == IF height_at(g, current_position) = HeightMIN THEN <<>>
                           ELSE one_lower(g, current_position, 1)
             IN  [task |-> [task EXCEPT !.positions = rest \o pushed,
                                        !.seen_position = seen],
                  wrote |-> Some(current_position)]

\* A slip: a handle counts as finished whatever its task still has to do.
finished_unawaited(task) == TRUE

\* handle.await returns: the task's loop has ended.
finished(task) == task.positions = <<>>

----------------------------------------------------------------------------
(* SpecDay10: day10 run(): parse, process_part1, process_part2.            *)

\* Widest and tallest of the height maps, whose rows are ramps: row r holds the
\* heights (column + shift_r) mod 10.
MaxRampWidth == 10
MaxRampRows == 1

ramp(shift, width) == [c \in 1..width |-> DigitChars[((c - 1 + shift) % 10) + 1]]

RampTexts ==
    UNION {{join_lines([r \in 1..h |-> ramp(shifts[r], w)]) :
                shifts \in [1..h -> 0..9]} :
           w \in 1..MaxRampWidth, h \in 1..MaxRampRows}

\* Two rows over a whole cycle of heights, the lower row one step ahead: two
\* trail ends whose walks share cells, and several paths to one trailhead.
StairTexts ==
    {join_lines(<<ramp(shift, HeightMAX + 1), ramp(shift + 1, HeightMAX + 1)>>) :
        shift \in HeightMIN..HeightMAX}

\* Two trail ends over one trailhead.
ValleyText == join_lines(<<Chars("9876543210123456789")>>)

InitDay10 ==
    /\ raw_map \in RampTexts \cup StairTexts \cup {ValleyText, <<>>}
    /\ pc10 = "input" /\ heights = NoGrid /\ counters = <<>>
    /\ tasks = <<>> /\ awaited = 0 /\ writes = <<>> /\ result10_1 = 0 /\ result10_2 = 0
    /\ OthersIdle("day10")

\* run(): let input: Input = raw_input.parse()?
ParseMap ==
    /\ pc10 = "input"
    /\ LET r == HeightGrid_from_str(raw_map) IN
       IF IsOk(r) THEN heights' = r[2] /\ pc10' = "part1"
       ELSE heights' = heights /\ pc10' = "parse_error"
    /\ UNCHANGED <<raw_map, counters, tasks, awaited, writes, result10_1, result10_2,
                   outsideDay10>>

\* process_part1/2 up to `collect::<Vec<_>>()`: the counters, one task spawned
\* per trail end.
Spawn ==
    /\ pc10 \in {"part1", "part2"}
    /\ counters' = [i \in 0..(cell_count(heights) - 1) |-> 0]
    /\ tasks' = [t \in DOMAIN trail_ends(heights) |-> Task(trail_ends(heights)[t])]
    /\ writes' = [t \in DOMAIN trail_ends(heights) |->
                    [i \in 0..(cell_count(heights) - 1) |-> 0]]
    /\ awaited' = 0
    /\ pc10' = IF pc10 = "part1" THEN "running1" ELSE "running2"
    /\ UNCHANGED <<raw_map, heights, result10_1, result10_2, outsideDay10>>

\* One turn of the loop of one spawned task.
TaskTurn(t) ==
    /\ pc10 \in {"running1", "running2"}
    /\ tasks[t].positions # <<>>
    /\ LET turn == task_turn(heights, IF pc10 = "running1" THEN 1 ELSE 2, tasks[t]) IN
       /\ tasks' = [tasks EXCEPT ![t] = turn.task]
       /\ IF turn.wrote = None
          THEN UNCHANGED <<counters, writes>>
          ELSE /\ counters' = [counters EXCEPT ![turn.wrote[2]] = @ + 1]
               /\ writes' = [writes EXCEPT ![t][turn.wrote[2]] = @ + 1]
    /\ UNCHANGED <<raw_map, pc10, heights, awaited, result10_1, result10_2, outsideDay10>>

\* `for handle in handles { handle.await?; }`: the next handle's task has ended.
Await ==
    /\ pc10 \in {"running1", "running2"}
    /\ awaited < Len(tasks)
    /\ finished(tasks[awaited + 1])
    /\ awaited' = awaited + 1
    /\ UNCHANGED <<raw_map, pc10, heights, counters, tasks, writes, result10_1,
                   result10_2, outsideDay10>>

\* Every handle is awaited: the counters are loaded and the trail heads' summed.
Collect ==
    /\ pc10 \in {"running1", "running2"}
    /\ awaited = Len(tasks)
    /\ LET result == SumSeq([k \in DOMAIN trail_heads(heights) |->
                               counters[trail_heads(heights)[k]]])
       IN  IF pc10 = "running1"
           THEN result10_1' = result /\ pc10' = "part2" /\ UNCHANGED result10_2
           ELSE result10_2' = result /\ pc10' = "done" /\ UNCHANGED result10_1
    /\ UNCHANGED <<raw_map, heights, counters, tasks, awaited, writes, outsideDay10>>

NextDay10 ==
    \/ ParseMap
    \/ Spawn
    \/ \E t \in DOMAIN tasks : TaskTurn(t)
    \/ Await
    \/ Collect

SpecDay10 == InitDay10 /\ [][NextDay10]_vars

----------------------------------------------------------------------------
(* Claims about the grid (SpecGrid).                                       *)

\* C7: for every Grid and ParsedGrid and every index i below the cell count,
\* coordinate_to_index(index_to_coordinate(i)) returns Ok(i).
C7_RoundTrip ==
    (gpc = "called" /\ call.op = "round_trip") => call.ret = Ok(call.index)

\* C7 witness: the round trip was made on a ParsedGrid for an index beyond the
\* first row.
C7_Witness ==
    /\ gpc = "called" /\ call.op = "round_trip"
    /\ grid.kind = "ParsedGrid" /\ call.index >= grid.width /\ grid.width >= 2
    /\ call.ret = Ok(call.index)

\* The coordinate a cell index stands for, stated on its own: column and row.
column(g, i) == i % g.width
row(g, i) == i \div g.width

C9_LenMultipleOfWidth ==
    gpc = "grid" => cell_count(grid) % grid.width = 0

\* Reference for C10: the cells at exactly k steps from the start, found level by
\* level over the 4-neighbour relation of the grid's coordinates.
adjacent(g, i, j) ==
    Abs(column(g, i) - column(g, j)) + Abs(row(g, i) - row(g, j)) = 1

RECURSIVE steps_from(_, _, _, _, _)
steps_from(g, w, frontier, seen, k) ==
    IF frontier = {} THEN [i \in {} |-> 0]
    ELSE LET reached == {j \in Indices(g) \ seen :
                           /\ ~is_wall(w, char_at(g, j))
                           /\ \E i \in frontier : adjacent(g, i, j)}
         IN  [i \in frontier |-> k]
             @@ steps_from(g, w, reached, seen \cup reached, k + 1)

min_steps(g, w, s) == steps_from(g, w, {s}, {s}, 0)

\* C10: flood returns one entry per cell: 0 at the start, the minimum number of
\* 4-neighbour steps through non-wall cells for every cell reachable that way,
\* and usize::MAX for every other cell.
C10_FloodDistances ==
    gpc = "flooded" =>
        LET ref == min_steps(grid, walls, start) IN
        /\ DOMAIN distances = Indices(grid)
        /\ distances[start] = 0
        /\ \A i \in Indices(grid) :
             distances[i] = IF i \in DOMAIN ref THEN ref[i] ELSE USIZE_MAX

\* C10 witness: a finished flood with a cell two or more steps away, a wall and an
\* open cell the walls cut off, which kept the sentinel.
C10_Witness ==
    /\ gpc = "flooded"
    /\ \E i, j, k \in Indices(grid) :
         /\ distances[i] >= 2 /\ distances[i] < USIZE_MAX
         /\ is_wall(walls, char_at(grid, j)) /\ distances[j] = USIZE_MAX
         /\ ~is_wall(walls, char_at(grid, k)) /\ distances[k] = USIZE_MAX

----------------------------------------------------------------------------
(* Claims about day16 (SpecDay16).                                         *)

\* The reindeer's situations: a cell and a facing.
situations(inp) == cells(inp) \X Direction

turn_cost(facing, direction) == IF direction = facing THEN 1 ELSE 1001

\* One round of relaxation of the cheapest cost from 'S' facing East to each
\* situation: a step goes one cell in the facing kept or turned by 90 degrees.
relax_from_start(inp, d) ==
    [pf \in situations(inp) |->
        LET p == pf[1]
            f == pf[2]
            r == offset_index(inp.map, p, into(rotate180(f)))
            arrivals ==
                IF ~IsOk(r) \/ char_at(inp.map, p) = "#" THEN {}
                ELSE {d[<<r[2], g>>] + turn_cost(g, f) :
                        g \in {h \in Direction : /\ h # rotate180(f)
                                                 /\ d[<<r[2], h>>] < USIZE_MAX}}
        IN  Min(arrivals \cup {d[pf]})]

RECURSIVE cost_from_start_fix(_, _)
cost_from_start_fix(inp, d) ==
    LET n == relax_from_start(inp, d) IN
    IF n = d THEN d ELSE cost_from_start_fix(inp, n)

\* The cheapest cost of a walk from 'S' facing East to each situation.
cost_from_start(inp) ==
    cost_from_start_fix(inp,
        [pf \in situations(inp) |-> IF pf = <<inp.start, East>> THEN 0 ELSE USIZE_MAX])

\* One round of relaxation of the cheapest cost from each situation to 'E'.
relax_to_end(inp, b) ==
    [pf \in situations(inp) |->
        LET p == pf[1]
            f == pf[2]
            departures ==
                IF char_at(inp.map, p) = "#" THEN {}
                ELSE {turn_cost(f, g) + b[<<offset_index(inp.map, p, into(g))[2], g>>] :
                        g \in {h \in Direction :
                                 /\ h # rotate180(f)
                                 /\ IsOk(offset_index(inp.map, p, into(h)))
                                 /\ char_at(inp.map, offset_index(inp.map, p, into(h))[2]) # "#"
                                 /\ b[<<offset_index(inp.map, p, into(h))[2], h>>] < USIZE_MAX}}
        IN  Min(departures \cup {b[pf]})]

RECURSIVE cost_to_end_fix(_, _)
cost_to_end_fix(inp, b) ==
    LET n == relax_to_end(inp, b) IN
    IF n = b THEN b ELSE cost_to_end_fix(inp, n)

\* The cheapest cost of a walk from each situation to 'E'.
cost_to_end(inp) ==
    cost_to_end_fix(inp,
        [pf \in situations(inp) |-> IF pf[1] = inp.end THEN 0 ELSE USIZE_MAX])

\* The minimum cost of a walk from 'S' facing East to 'E'; USIZE_MAX if none.
best_cost(inp) ==
    LET d == cost_from_start(inp) IN Min({d[<<inp.end, f>>] : f \in Direction})

\* The cells on at least one minimum-cost walk.
best_cells(inp) ==
    LET d == cost_from_start(inp)
        b == cost_to_end(inp)
        best == Min({d[<<inp.end, f>>] : f \in Direction})
    IN  {p \in cells(inp) :
            \E f \in Direction : /\ d[<<p, f>>] < USIZE_MAX
                                  /\ b[<<p, f>>] < USIZE_MAX
                                  /\ d[<<p, f>>] + b[<<p, f>>] = best}

\* C1: on every maze whose end can be reached, find_score returns the minimum
\* cost of a walk from 'S' facing East to 'E' (1 per step straight on, 1001 per
\* step after a 90-degree turn).
C1_FindScoreOptimal ==
    /\ pc16 = "part2" => result1 = Some(best_cost(input))
    /\ (pc16 = "panic" /\ shortest_map = <<>>) => best_cost(input) = USIZE_MAX

\* C2: on every maze whose end can be reached, count_best_paths returns the
\* number of cells that lie on at least one minimum-cost walk from 'S' to 'E'.
C2_CountBestPaths ==
    pc16 = "done" => result2 = Cardinality(best_cells(input))

\* C3: on example 1, the 15x15 maze of the tests, process_part1 returns 7036
\* and process_part2 returns 45.
C3_Example1 ==
    raw_input = Example1 =>
        /\ pc16 \notin {"parse_error", "panic"}
        /\ pc16 \in {"part2", "count_forward", "count_backward", "done"}
              => result1 = Some(7036)
        /\ pc16 = "done" => result2 = 45

C3_Witness ==
    raw_input = Example1 /\ pc16 = "done" /\ result1 = Some(7036) /\ result2 = 45

\* Whether 'E' can be reached from 'S' at all, by 4-neighbour steps through
\* cells that are not walls.
RECURSIVE reachable_from(_, _)
reachable_from(inp, seen) ==
    LET more == {q \in cells(inp) \ seen :
                    /\ char_at(inp.map, q) # "#"
                    /\ \E p \in seen, d \in Direction :
                          offset_index(inp.map, p, into(d)) = Ok(q)}
    IN  IF more = {} THEN seen ELSE reachable_from(inp, seen \cup more)

end_reachable(inp) == inp.end \in reachable_from(inp, {inp.start})

\* C11: when 'E' cannot be reached from 'S', find_score yields None and
\* process_part1 returns without panicking.
C11_NoPathNoPanic ==
    (pc16 \in {"part2", "panic"} /\ shortest_map = <<>> /\ ~end_reachable(input))
        => (result1 = None /\ pc16 # "panic")

\* find_score run to its end with one fixed choice among the states pop may
\* return: st = [scores, heap].
RECURSIVE find_score_run(_, _)
find_score_run(inp, st) ==
    IF st.heap = {} THEN None
    ELSE LET top == CHOOSE t \in peek(st.heap) : TRUE
             rest == st.heap \ {top}
         IN  IF top.position = inp.end THEN Some(top.score)
             ELSE IF top.score > st.scores[top.position]
             THEN find_score_run(inp, [scores |-> st.scores, heap |-> rest])
             ELSE find_score_run(inp,
                    find_score_directions(inp, top.position, top.score, top.facing, 1,
                                          [scores |-> st.scores, heap |-> rest]))

find_score(inp) ==
    find_score_run(inp,
        [scores |-> [i \in cells(inp) |-> IF i = inp.start THEN 0 ELSE USIZE_MAX],
         heap |-> {State(inp.start, 0, East)}])

\* C12: whichever of the states that compare equal the heap pops first,
\* find_score returns the same cost: every run returns what the run with one
\* fixed choice returns, and the heap never offers a choice, since the states
\* it holds for one position have different scores.
C12_PopOrderIrrelevant ==
    /\ pc16 = "find_score" => \A a, b \in peek(heap) : a = b
    /\ pc16 = "part2" => result1 = find_score(input)
    /\ (pc16 = "panic" /\ shortest_map = <<>>) => find_score(input) = None

\* find_score has returned a cost from a heap that held two states of one
\* position with different facings.
C12_Witness ==
    /\ pc16 = "part2" /\ result1 # None
    /\ \E a, b \in heap : a.position = b.position /\ a.facing # b.facing

----------------------------------------------------------------------------
(* Claims about day21 (SpecDay21, SpecCode).                               *)

\* The keypad chain, as Simulate::next relays a step (day21.rs 382-397, nested
\* as in day21.rs 558): a situation is <<the arm over the second directional
\* keypad, the arm over the first, the arm over the numeric keypad, the number
\* of characters of the code typed>>. A press that takes an arm off the keys or
\* types a character that is not the code's next one leads nowhere.
on_keypad(level, c) ==
    IF level = 3 THEN IsOk(numeric_coordinate_to_input(c))
    ELSE IsOk(directional_coordinate_to_input(c))

step_direction(step) == CHOOSE d \in Direction : symbol(d) = step

RECURSIVE relay(_, _, _, _)
relay(code, s, step, level) ==
    IF step # "A"
    THEN LET moved == add(s[level], into(step_direction(step))) IN
         IF on_keypad(level, moved) THEN {[s EXCEPT ![level] = moved]} ELSE {}
    ELSE IF level = 3
    THEN IF s[4] < Len(code) /\ numeric_coordinate_to_input(s[3])[2] = code[s[4] + 1]
         THEN {[s EXCEPT ![4] = s[4] + 1]}
         ELSE {}
    ELSE relay(code, s, directional_coordinate_to_input(s[level])[2], level + 1)

presses(code, s) == UNION {relay(code, s, step, 1) : step \in DirectionalKeys}

RECURSIVE presses_until_typed(_, _, _, _)
presses_until_typed(code, frontier, seen, n) ==
    IF \E s \in frontier : s[4] = Len(code) THEN n
    ELSE IF frontier = {} THEN USIZE_MAX
    ELSE LET reached == UNION {presses(code, s) : s \in frontier} \ seen IN
         presses_until_typed(code, reached, seen \cup reached, n + 1)

\* The length of the shortest button sequence on the outermost keypad that
\* types the code.
shortest_presses(code) ==
    LET s0 == <<DirectionalSTART, DirectionalSTART, NumericSTART, 0>> IN
    presses_until_typed(code, {s0}, {s0}, 0)

\* C4: the keystroke count process_part1 computes for a code is the length of
\* the shortest button sequence on the outermost directional keypad that types
\* the code through the two intermediate directional keypads and the numeric one.
C4_KeystrokesShortest ==
    (pc21 = "done" /\ Len(codes) = 1 /\ Len(lengths) = 1)
        => lengths[1] = shortest_presses(codes[1])

\* C5: on the example, 029A takes 68 keystrokes and 980A takes 60, both the
\* shortest that type the code, and process_part1 returns 126384.
C5_Example ==
    raw_codes = ExampleInput =>
        /\ pc21 # "panic"
        /\ Len(lengths) >= 1 => lengths[1] = 68
        /\ Len(lengths) >= 2 => lengths[2] = 60
        /\ pc21 = "done" =>
              /\ codes = ExampleCodes
              /\ result21 = 126384
              /\ shortest_presses(codes[1]) = 68
              /\ shortest_presses(codes[2]) = 60

C5_Witness ==
    /\ raw_codes = ExampleInput /\ pc21 = "done"
    /\ lengths[1] = 68 /\ lengths[2] = 60 /\ result21 = 126384

\* C6: process_part1 returns the sum, over every line of the input, of the
\* line's numeric prefix times the keystroke count computed for the line.
C6_SumOverEveryLine ==
    pc21 = "done" =>
        result21 = SumSeq([i \in DOMAIN codes |->
                              numeric_prefix(codes[i])[2] * keystroke_count(codes[i])])

----------------------------------------------------------------------------
(* Claims about day10 (SpecDay10).                                         *)

\* The number of paths from the trail end e down to position i that lose
\* exactly 1 in height at every step, counted upwards from i.
RECURSIVE descents(_, _, _)
descents(g, e, i) ==
    IF i = e THEN 1
    ELSE LET above == {j \in 0..(cell_count(g) - 1) :
                          /\ height_at(g, j) = height_at(g, i) + 1
                          /\ \E d \in Direction : offset_index(g, i, into(d)) = Ok(j)}
         IN  IF above = {} THEN 0
             ELSE SumSeq([k \in 1..Cardinality(above) |->
                            descents(g, e, CHOOSE j \in above :
                                Cardinality({l \in above : l < j}) = k - 1)])

all_finished == \A t \in DOMAIN tasks : tasks[t].positions = <<>>

\* C13 as stated: each counter is written by one task only.
C13_OneWriterPerCounter ==
    pc10 \in {"running1", "running2"} =>
        \A i \in DOMAIN counters :
            Cardinality({t \in DOMAIN tasks : writes[t][i] > 0}) <= 1

\* C13, amended: a counter is written by every task whose walk visits its cell,
\* which may be several tasks; no fetch_add is lost, so a counter holds the
\* number of writes of all tasks together, and once the loops have ended each
\* task has written each cell once per visit: in part 1 once if a descending
\* path joins its trail end to the cell, in part 2 once per such path.
C13_SharedCountersAdd ==
    pc10 \in {"running1", "running2"} =>
        /\ \A i \in DOMAIN counters :
              counters[i] = SumSeq([t \in DOMAIN tasks |-> writes[t][i]])
        /\ all_finished =>
              \A t \in DOMAIN tasks : \A i \in DOMAIN counters :
                    writes[t][i] =
                       IF pc10 = "running1"
                       THEN (IF descents(heights, tasks[t].position, i) > 0 THEN 1 ELSE 0)
                       ELSE descents(heights, tasks[t].position, i)

\* Two tasks have ended and both have written one counter.
C13_Witness ==
    /\ pc10 \in {"running1", "running2"} /\ all_finished
    /\ \E i \in DOMAIN counters : \E t, u \in DOMAIN tasks :
          t # u /\ writes[t][i] > 0 /\ writes[u][i] > 0

joined_pairs(g) ==
    SumSeq([k \in DOMAIN trail_heads(g) |->
              Cardinality({e \in DOMAIN trail_ends(g) :
                             descents(g, trail_ends(g)[e], trail_heads(g)[k]) > 0})])

distinct_paths(g) ==
    SumSeq([k \in DOMAIN trail_heads(g) |->
              SumSeq([e \in DOMAIN trail_ends(g) |->
                        descents(g, trail_ends(g)[e], trail_heads(g)[k])])])

\* C14: under every interleaving of the tasks, every task has ended before
\* the counters are read, process_part1 returns the number of (trailhead,
\* trail end) pairs joined by a path rising by 1 at every step, and
\* process_part2 returns the number of such paths.
C14_AwaitedThenCounted ==
    /\ pc10 \in {"running1", "running2"} =>
          \A t \in 1..awaited : tasks[t].positions = <<>>
    /\ pc10 \in {"part2", "done"} => all_finished
    /\ pc10 \in {"part2", "done"} => result10_1 = joined_pairs(heights)
    /\ pc10 = "done" => result10_2 = distinct_paths(heights)

\* Both parts have returned, on a map with two tasks and more paths than pairs.
C14_Witness ==
    /\ pc10 = "done" /\ Len(tasks) >= 2
    /\ result10_1 > 0 /\ result10_2 > result10_1

----------------------------------------------------------------------------
(* main.rs: main spawns one task per day, joins them and folds the results. *)

\* The days of the join! (17 in main.rs), as many as the model runs.
MaxDays == 5

Unit == "()"
\* eyre::Report returned by day d's run(); tokio's JoinError of day d's task.
Report(d) == <<"Err", <<"report", d>>>>
JoinError(d) == <<"Err", <<"join_error", d>>>>

\* What awaiting the JoinHandle of a finished day task yields:
\* Result<eyre::Result<()>, JoinError>.
handle_output(d, state) ==
    CASE state = "ok" -> Ok(Ok(Unit))
      [] state = "err" -> Ok(Report(d))
      [] state = "panicked" -> JoinError(d)

and_keeps_last(a, b) == b

\* Result::and
and(a, b) == IF IsOk(a) THEN b ELSE a

day_finished(state) == state \in {"ok", "err", "panicked"}

InitMain ==
    /\ pcMain = "setup" /\ spawned = 0
    /\ input_dir \in {"absent", "dir", "file"}
    /\ day_pc = [d \in 1..MaxDays |-> "unspawned"]
    /\ checked = 0 /\ chain = <<>> /\ main_result = <<>>
    /\ OthersIdle("main")

\* util::setup()?
Setup ==
    /\ pcMain = "setup"
    /\ \/ pcMain' = "spawn" /\ main_result' = main_result
       \/ pcMain' = "returned" /\ main_result' = Report(0)
    /\ UNCHANGED <<spawned, input_dir, day_pc, checked, chain, outsideMain>>

\* join!( tokio::spawn(days::dayN::run()), ... ): the arguments, in order
SpawnDay ==
    /\ pcMain = "spawn"
    /\ spawned' = spawned + 1
    /\ day_pc' = [day_pc EXCEPT ![spawned + 1] = "get_input"]
    /\ pcMain' = IF spawned + 1 = MaxDays THEN "join" ELSE "spawn"
    /\ UNCHANGED <<input_dir, checked, chain, main_result, outsideMain>>

\* get_input: if !input_dir.exists() { .. } else if !input_dir.is_dir() { Err }
DayGetInput(d) ==
    /\ day_pc[d] = "get_input"
    /\ day_pc' = [day_pc EXCEPT ![d] =
                    CASE input_dir = "absent" -> "create_dir"
                      [] input_dir = "file" -> "err"
                      [] input_dir = "dir" -> "solve"]
    /\ UNCHANGED <<pcMain, spawned, input_dir, checked, chain, main_result, outsideMain>>

\* get_input: std::fs::create_dir(input_dir).wrap_err(..)?
DayCreateDir(d) ==
    /\ day_pc[d] = "create_dir"
    /\ IF input_dir = "absent"
       THEN input_dir' = "dir" /\ day_pc' = [day_pc EXCEPT ![d] = "solve"]
       ELSE input_dir' = input_dir /\ day_pc' = [day_pc EXCEPT ![d] = "err"]
    /\ UNCHANGED <<pcMain, spawned, checked, chain, main_result, outsideMain>>

\* The rest of dayN::run(): it returns Ok(()), returns an error, or panics; the
\* runtime keeps a panic inside the task, as the JoinError of its handle.
DaySolve(d) ==
    /\ day_pc[d] = "solve"
    /\ \E outcome \in {"ok", "err", "panicked"} :
          day_pc' = [day_pc EXCEPT ![d] = outcome]
    /\ UNCHANGED <<pcMain, spawned, input_dir, checked, chain, main_result, outsideMain>>

\* join! completes when every handle has completed
Join ==
    /\ pcMain = "join"
    /\ \A d \in 1..MaxDays : day_finished(day_pc[d])
    /\ pcMain' = "check"
    /\ UNCHANGED <<spawned, input_dir, day_pc, checked, chain, main_result, outsideMain>>

\* day1?.and(day2?)....: the next `dayN?`, then the .and with it
CheckDay ==
    /\ pcMain = "check" /\ checked < MaxDays
    /\ LET d == checked + 1
           out == handle_output(d, day_pc[d])
       IN  IF IsOk(out)
           THEN /\ checked' = d
                /\ chain' = IF d = 1 THEN out[2] ELSE and(chain, out[2])
                /\ UNCHANGED <<pcMain, main_result>>
           ELSE /\ pcMain' = "returned" /\ main_result' = out
                /\ UNCHANGED <<checked, chain>>
    /\ UNCHANGED <<spawned, input_dir, day_pc, outsideMain>>

\* the value of the whole chain is what main returns
Return ==
    /\ pcMain = "check" /\ checked = MaxDays
    /\ pcMain' = "returned" /\ main_result' = chain
    /\ UNCHANGED <<spawned, input_dir, day_pc, checked, chain, outsideMain>>

NextMain ==
    \/ Setup
    \/ SpawnDay
    \/ \E d \in 1..MaxDays : DayGetInput(d)
    \/ \E d \in 1..MaxDays : DayCreateDir(d)
    \/ \E d \in 1..MaxDays : DaySolve(d)
    \/ Join
    \/ CheckDay
    \/ Return

SpecMain == InitMain /\ [][NextMain]_vars

----------------------------------------------------------------------------
(* Claims about main (SpecMain).                                           *)

some_day_failed == \E d \in 1..MaxDays : day_pc[d] \in {"err", "panicked"}

\* In one step, the days other than d keep their place.
others_untouched(d) == \A e \in 1..MaxDays : e # d => day_pc'[e] = day_pc[e]

\* C15: a day task that returns an error or panics neither stops nor changes
\* another day's task; every spawned day task has finished when main returns;
\* main returns an error when a day failed and Ok only when all succeeded.
C15_DaysIsolated ==
    /\ [][\A d \in 1..MaxDays :
            (day_pc'[d] \in {"err", "panicked"} /\ day_pc[d] # day_pc'[d])
                => (others_untouched(d) /\ input_dir' = input_dir)]_vars
    /\ [](\A d \in 1..MaxDays :
            (pcMain \in {"spawn", "join"} /\ day_pc[d] = "solve") => ENABLED DaySolve(d))
    /\ [](pcMain = "returned" =>
            /\ \A d \in 1..spawned : day_finished(day_pc[d])
            /\ spawned = MaxDays => (IsOk(main_result) <=> ~some_day_failed)
            /\ spawned = 0 => ~IsOk(main_result))

\* main has returned an error although the last day succeeded, after one day
\* returned an error and another panicked.
C15_Witness ==
    /\ pcMain = "returned" /\ spawned = MaxDays /\ ~IsOk(main_result)
    /\ day_pc[MaxDays] = "ok"
    /\ \E d, e \in 1..MaxDays : day_pc[d] = "err" /\ day_pc[e] = "panicked"

----------------------------------------------------------------------------
(* day19.rs: towel patterns, counted through a process-wide cache.          *)

\* Stripe colours of the modelled towels and patterns.
Stripes == {"r", "b"}
\* Longest towel, most towels of an input, longest pattern, and how many
\* process_part1 / process_part2 calls one process makes.
MaxTowelLen == 2
MaxTowels == 2
MaxPatternLen == 3
MaxInvocations == 2

\* str::strip_prefix
strip_prefix(pattern, towel) ==
    IF Len(towel) <= Len(pattern) /\ SubSeq(pattern, 1, Len(towel)) = towel
    THEN Some(SubSeq(pattern, Len(towel) + 1, Len(pattern)))
    ELSE None

EmptyCache == <<>>

\* The body of count_pattern_combinations, its recursive calls going through
\* the cache as the #[cached] wrapper makes them: the sum over the towels
\* from the k-th on, and the cache afterwards.
RECURSIVE count_body(_, _, _, _)
RECURSIVE count_pattern_combinations(_, _, _)
count_body(pattern, available_towels, k, cache) ==
    IF k > Len(available_towels) THEN [value |-> 0, cache |-> cache]
    ELSE LET rest == strip_prefix(pattern, available_towels[k])
             this == IF rest = None THEN [value |-> 0, cache |-> cache]
                     ELSE IF rest[2] = <<>> THEN [value |-> 1, cache |-> cache]
                     ELSE count_pattern_combinations(rest[2], available_towels, cache)
             others == count_body(pattern, available_towels, k + 1, this.cache)
         IN  [value |-> this.value + others.value, cache |-> others.cache]

\* #[cached(key = "String", convert = r#"{ pattern.to_string() }"#)]: a stored
\* pattern answers from the cache, whatever the towels; a new one is computed
\* and stored.
count_pattern_combinations(pattern, available_towels, cache) ==
    IF pattern \in DOMAIN cache
    THEN [value |-> cache[pattern], cache |-> cache]
    ELSE LET r == count_body(pattern, available_towels, 1, cache)
         IN  [value |-> r.value, cache |-> (pattern :> r.value) @@ r.cache]

\* The iterator of process_part1 (possible = TRUE: count the patterns with a
\* positive count) and process_part2 (sum the counts), from the k-th pattern.
RECURSIVE over_patterns(_, _, _, _)
over_patterns(possible, given, k, cache) ==
    IF k > Len(given.patterns) THEN [value |-> 0, cache |-> cache]
    ELSE LET r == count_pattern_combinations(given.patterns[k], given.available_towels, cache)
             others == over_patterns(possible, given, k + 1, r.cache)
         IN  [value |-> (IF possible THEN (IF r.value > 0 THEN 1 ELSE 0) ELSE r.value)
                            + others.value,
              cache |-> others.cache]

day19_process_part1(given, cache) == over_patterns(TRUE, given, 1, cache)
day19_process_part2(given, cache) == over_patterns(FALSE, given, 1, cache)

StripeTexts(n) == UNION {[1..l -> Stripes] : l \in 1..n}

RECURSIVE text_code(_)
text_code(t) ==
    IF t = <<>> THEN 0
    ELSE text_code(SubSeq(t, 1, Len(t) - 1)) * 3 + (IF t[Len(t)] = "r" THEN 1 ELSE 2)

\* Towel lists without repetition, given one order each.
TowelLists ==
    {ts \in UNION {[1..n -> StripeTexts(MaxTowelLen)] : n \in 1..MaxTowels} :
        \A i, j \in DOMAIN ts : i < j => text_code(ts[i]) < text_code(ts[j])}

\* What Input::from_str builds: non-empty towels, non-empty patterns.
Day19Inputs ==
    {[available_towels |-> ts, patterns |-> <<p>>] :
        ts \in TowelLists, p \in StripeTexts(MaxPatternLen)}

InitDay19 ==
    /\ pc19 = "ready" /\ pattern_cache = EmptyCache /\ invocations = 0 /\ last_call = <<>>
    /\ OthersIdle("day19")

Day19Part1 ==
    /\ pc19 = "ready" /\ invocations < MaxInvocations
    /\ \E given \in Day19Inputs :
          LET r == day19_process_part1(given, pattern_cache)
          IN  /\ pattern_cache' = r.cache
              /\ last_call' = [part |-> 1, input |-> given, result |-> r.value]
    /\ invocations' = invocations + 1
    /\ UNCHANGED <<pc19, outsideDay19>>

Day19Part2 ==
    /\ pc19 = "ready" /\ invocations < MaxInvocations
    /\ \E given \in Day19Inputs :
          LET r == day19_process_part2(given, pattern_cache)
          IN  /\ pattern_cache' = r.cache
              /\ last_call' = [part |-> 2, input |-> given, result |-> r.value]
    /\ invocations' = invocations + 1
    /\ UNCHANGED <<pc19, outsideDay19>>

NextDay19 == Day19Part1 \/ Day19Part2

SpecDay19 == InitDay19 /\ [][NextDay19]_vars

----------------------------------------------------------------------------
(* Claims about day19 (SpecDay19).                                         *)

\* C16: what process_part1 and process_part2 return for an input is what they
\* return for it given a process that has processed nothing before.
C16_NoStateAcrossInvocations ==
    invocations > 0 =>
        last_call.result =
            IF last_call.part = 1
            THEN day19_process_part1(last_call.input, EmptyCache).value
            ELSE day19_process_part2(last_call.input, EmptyCache).value

----------------------------------------------------------------------------
(* day18.rs: process_part2, bytes falling into a memory grid.               *)

\* Longest side of the modelled memory grids, most bytes of an input, and the
\* largest INITIAL.
MaxSide == 3
MaxBytes == 3
MaxInitial == 1

\* ParsedGrid::new(WIDTH, HEIGHT) over bool
new_memory(w, h) ==
    [kind |-> "ParsedGrid", char_map |-> [i \in 1..(w * h) |-> FALSE], width |-> w]

\* grid.as_mut_slice()[y * WIDTH + x] = true
corrupt(g, byte) ==
    [g EXCEPT !.char_map[byte[2] * g.width + byte[1] + 1] = TRUE]

\* for (x, y) in &input.byte_locations[0..INITIAL]
RECURSIVE corrupt_first(_, _, _)
corrupt_first(g, bytes, n) ==
    IF n = 0 THEN g ELSE corrupt(corrupt_first(g, bytes, n - 1), bytes[n])

\* while let Some(Node { position, distance }) = to_visit.pop_front() { .. }:
\* the loop of Grid::flood, over the cells that are not corrupted.
RECURSIVE day18_scan(_, _)
day18_scan(g, st) ==
    IF st.to_visit = <<>> THEN st.distances
    ELSE day18_scan(g, flood_step(g, {TRUE}, st))

\* The rescan iterator: a cell further than the fallen byte forgets its
\* distance, a cell as far as it is visited again; corrupted cells are skipped.
rescan(g, dists, blocked_distance) ==
    LET order == [i \in 1..cell_count(g) |-> i - 1]
        again(i) == /\ ~char_at(g, i)
                    /\ ~(dists[i] > blocked_distance)
                    /\ blocked_distance # USIZE_MAX
                    /\ dists[i] = blocked_distance
        picked == SelectSeq(order, again)
    IN  [distances |-> [i \in DOMAIN dists |->
                          IF ~char_at(g, i) /\ dists[i] > blocked_distance
                          THEN USIZE_MAX ELSE dists[i]],
         to_visit  |-> [k \in DOMAIN picked |-> Node(picked[k], dists[picked[k]])]]

\* One turn of `for (x, y) in &input.byte_locations[INITIAL..]`, up to the test
\* of the last cell: the grid and the distances afterwards.
byte_falls(g, dists, byte) ==
    LET corrupted == corrupt(g, byte)
        blocked_distance == dists[byte[2] * g.width + byte[1]]
    IN  [grid |-> corrupted,
         distances |-> day18_scan(corrupted, rescan(corrupted, dists, blocked_distance))]

Day18Shapes == (2..MaxSide) \X (2..MaxSide)

InitDay18 ==
    /\ pc18 = "input"
    /\ shape18 \in Day18Shapes
    /\ byte_locations \in UNION {[1..n -> (0..(shape18[1] - 1)) \X (0..(shape18[2] - 1))] :
                                    n \in 0..MaxBytes}
    /\ initial18 \in 0..MaxInitial
    /\ initial18 <= Len(byte_locations)
    /\ memory = NoGrid /\ byte_distances = <<>> /\ fallen = 0 /\ result18 = <<>>
    /\ OthersIdle("day18")

\* process_part2: the grid, the first INITIAL bytes, the first scan
InitialBytes ==
    /\ pc18 = "input"
    /\ LET g == corrupt_first(new_memory(shape18[1], shape18[2]), byte_locations, initial18)
       IN  /\ memory' = g
           /\ byte_distances' =
                 day18_scan(g, [distances |-> [i \in Indices(g) |-> IF i = 0 THEN 0 ELSE USIZE_MAX],
                                to_visit |-> <<Node(0, 0)>>])
    /\ fallen' = initial18
    /\ pc18' = "bytes"
    /\ UNCHANGED <<shape18, initial18, byte_locations, result18, outsideDay18>>

\* one turn of the loop over byte_locations[INITIAL..]
ByteFalls ==
    /\ pc18 = "bytes" /\ fallen < Len(byte_locations)
    /\ LET byte == byte_locations[fallen + 1]
           after == byte_falls(memory, byte_distances, byte)
       IN  /\ memory' = after.grid
           /\ byte_distances' = after.distances
           /\ IF after.distances[shape18[1] * shape18[2] - 1] = USIZE_MAX
              THEN pc18' = "returned" /\ result18' = Ok(byte)
              ELSE pc18' = pc18 /\ result18' = result18
    /\ fallen' = fallen + 1
    /\ UNCHANGED <<shape18, initial18, byte_locations, outsideDay18>>

\* Err(eyre!("Could not find any corruption that blocks the path"))
NoByteBlocks ==
    /\ pc18 = "bytes" /\ fallen = Len(byte_locations)
    /\ pc18' = "returned" /\ result18' = Err
    /\ UNCHANGED <<shape18, initial18, byte_locations, memory, byte_distances, fallen,
                   outsideDay18>>

NextDay18 == InitialBytes \/ ByteFalls \/ NoByteBlocks

SpecDay18 == InitDay18 /\ [][NextDay18]_vars

----------------------------------------------------------------------------
(* Claims about day18 (SpecDay18).                                         *)

\* The cells joined to the cells of `seen` by steps over uncorrupted cells.
RECURSIVE open_from(_, _)
open_from(g, seen) ==
    LET more == {q \in Indices(g) \ seen :
                    /\ ~char_at(g, q)
                    /\ \E p \in seen : adjacent(g, p, q)}
    IN  IF more = {} THEN seen ELSE open_from(g, seen \cup more)

\* A path of uncorrupted cells joins the top-left cell to the bottom-right
\* cell once the first n bytes have fallen.
open_after(n) ==
    LET g == corrupt_first(new_memory(shape18[1], shape18[2]), byte_locations, n)
    IN  /\ ~char_at(g, 0)
        /\ (cell_count(g) - 1) \in open_from(g, {0})

first_blocking == {n \in (initial18 + 1)..Len(byte_locations) : ~open_after(n)}

\* C17: process_part2 returns the coordinate of the first byte after the first
\* INITIAL ones after whose fall no path of uncorrupted cells joins the
\* top-left cell to the bottom-right cell, and returns the error exactly when
\* the bottom-right cell is still reachable after every byte has fallen.
C17_FirstBlockingByte ==
    pc18 = "returned" =>
        /\ first_blocking # {} => result18 = Ok(byte_locations[Min(first_blocking)])
        /\ result18 = Err <=> open_after(Len(byte_locations))

----------------------------------------------------------------------------
(* day7.rs: Operator::apply and Equation::try_solve.                        *)

\* Largest operand, largest result and most operands of the modelled equations.
MaxOperand == 3
MaxResult == 12
MaxOperands == 3

ALL1 == <<"Add", "Multiply">>
ALL2 == <<"Add", "Multiply", "Concatenate">>

Panic == <<"panic">>

\* usize::checked_ilog10
RECURSIVE checked_ilog10(_)
checked_ilog10(n) ==
    IF n = 0 THEN None
    ELSE IF n < 10 THEN Some(0)
    ELSE Some(checked_ilog10(n \div 10)[2] + 1)

RECURSIVE pow10(_)
pow10(e) == IF e = 0 THEN 1 ELSE 10 * pow10(e - 1)

\* checked_add / checked_mul / checked_pow followed by unwrap()
unwrap_checked(n) == IF n > USIZE_MAX THEN Panic ELSE Ok(n)

\* Operator::apply: Ok(value), or Panic where an unwrap() meets None
apply(operator, a, b) ==
    CASE operator = "Add" -> unwrap_checked(a + b)
      [] operator = "Multiply" -> unwrap_checked(a * b)
      [] operator = "Concatenate" ->
            IF checked_ilog10(b) = None THEN Panic
            ELSE unwrap_checked(a * pow10(checked_ilog10(b)[2] + 1) + b)

Equation(result, operands) == [result |-> result, operands |-> operands]

\* The body of `for operator in operators`, from the k-th operator on, for the
\* popped equation eq (its first operand already taken off): what the turn ends
\* with ("next" | "true" | "panic") and the queue.
RECURSIVE for_operators(_, _, _, _, _, _)
for_operators(ops, k, first, second, eq, queue) ==
    IF k > Len(ops) THEN [end |-> "next", equations |-> queue]
    ELSE LET r == apply(ops[k], first, second) IN
         IF r = Panic THEN [end |-> "panic", equations |-> queue]
         ELSE LET preliminary_result == r[2]
                  pushed == [eq EXCEPT !.operands[1] = preliminary_result]
              IN  IF preliminary_result < eq.result
                  THEN IF Len(eq.operands) = 1
                       THEN for_operators(ops, k + 1, first, second, eq, queue)
                       ELSE for_operators(ops, k + 1, first, second, pushed,
                                          Append(queue, pushed))
                  ELSE IF preliminary_result = eq.result
                  THEN IF Len(eq.operands) = 1
                       THEN [end |-> "true", equations |-> queue]
                       ELSE for_operators(ops, k + 1, first, second, pushed,
                                          Append(queue, pushed))
                  ELSE for_operators(ops, k + 1, first, second, eq, queue)

\* One turn of `while let Some(mut equation) = equations.pop_front()`.
try_solve_turn(ops, queue) ==
    LET popped == Head(queue)
        first == Head(popped.operands)
        rest == Tail(popped.operands)
    IN  for_operators(ops, 1, first, Head(rest), [popped EXCEPT !.operands = rest],
                      Tail(queue))

\* What Equation::from_str builds: two or more operands.
Equations ==
    {Equation(r, os) : r \in 0..MaxResult,
                       os \in UNION {[1..n -> 0..MaxOperand] : n \in 2..MaxOperands}}

InitDay7 ==
    /\ pc7 = "call"
    /\ equation \in Equations
    /\ operators \in {ALL1, ALL2}
    /\ equations = <<>> /\ solved = FALSE
    /\ OthersIdle("day7")

\* let mut equations = VecDeque::from_iter(std::iter::once(self.clone()));
TrySolveStart ==
    /\ pc7 = "call"
    /\ equations' = <<equation>>
    /\ pc7' = "loop"
    /\ UNCHANGED <<equation, operators, solved, outsideDay7>>

TrySolveTurn ==
    /\ pc7 = "loop" /\ equations # <<>>
    /\ LET turn == try_solve_turn(operators, equations)
       IN  /\ equations' = turn.equations
           /\ pc7' = CASE turn.end = "next" -> "loop"
                       [] turn.end = "true" -> "returned"
                       [] turn.end = "panic" -> "panic"
           /\ solved' = (turn.end = "true")
    /\ UNCHANGED <<equation, operators, outsideDay7>>

\* the queue is empty: false
TrySolveFalse ==
    /\ pc7 = "loop" /\ equations = <<>>
    /\ pc7' = "returned" /\ solved' = FALSE
    /\ UNCHANGED <<equation, operators, equations, outsideDay7>>

NextDay7 == TrySolveStart \/ TrySolveTurn \/ TrySolveFalse

SpecDay7 == InitDay7 /\ [][NextDay7]_vars

----------------------------------------------------------------------------
(* Claims about day7 (SpecDay7).                                           *)

\* a || b: the digits of a followed by the digits of b.
RECURSIVE digits_of(_)
digits_of(n) == IF n < 10 THEN 1 ELSE 1 + digits_of(n \div 10)

combine(operator, a, b) ==
    CASE operator = "Add" -> a + b
      [] operator = "Multiply" -> a * b
      [] operator = "Concatenate" -> a * pow10(digits_of(b)) + b

\* Every value some assignment of operators gives the first n operands,
\* evaluated left to right.
RECURSIVE left_to_right(_, _, _)
left_to_right(operands, n, ops) ==
    IF n = 1 THEN {operands[1]}
    ELSE {combine(ops[k], v, operands[n]) :
            k \in DOMAIN ops, v \in left_to_right(operands, n - 1, ops)}

solvable ==
    equation.result \in left_to_right(equation.operands, Len(equation.operands), operators)

\* C18: try_solve returns true exactly when some assignment of the operators,
\* evaluated left to right, yields the result; it returns false otherwise and
\* never crashes.
C18_TrySolveExact ==
    /\ pc7 # "panic"
    /\ pc7 = "returned" => (solved <=> solvable)

----------------------------------------------------------------------------
(* day20.rs: the Offsets iterator and process_part2.                        *)

\* Offsets::<19>
OffsetsMAX == 19

\* Most cells of the enumerated racetracks, and the largest SAVE.
MaxTrackCells == 6
MaxSave == 1

rotate90(d) ==
    CASE d = North -> East
      [] d = East  -> South
      [] d = South -> West
      [] d = West  -> North

\* impl Mul<isize> for Coordinate
mul(c, n) == <<c[1] * n, c[2] * n>>

\* Offsets::new
Offsets_new(start_position, direction) ==
    [anchor |-> start_position, straight |-> into(direction),
     queer |-> into(rotate90(direction)),
     straight_offset |-> OffsetsMAX, queer_offset |-> 0, finished |-> FALSE]

\* Iterator::next for Offsets, the item: an Option<(position, distance)>.
Offsets_item(g, it) ==
    LET offset == add(mul(it.straight, it.straight_offset), mul(it.queer, it.queer_offset))
        distance == it.straight_offset + it.queer_offset
        position == offset_index(g, it.anchor, offset)
    IN  IF IsOk(position) THEN Some(<<position[2], distance>>) ELSE None

\* Iterator::next for Offsets, the iterator afterwards.
Offsets_advance(it) ==
    IF it.queer_offset = 0
    THEN IF it.straight_offset = 0
         THEN [it EXCEPT !.finished = TRUE]
         ELSE [it EXCEPT !.straight_offset = it.straight_offset - 1,
                         !.queer_offset = OffsetsMAX - (it.straight_offset - 1)]
    ELSE [it EXCEPT !.queer_offset = it.queer_offset - 1]

\* The iterator after n calls of next.
RECURSIVE Offsets_after(_, _)
Offsets_after(it, n) ==
    IF n = 0 \/ it.finished THEN it ELSE Offsets_after(Offsets_advance(it), n - 1)

\* What the next n calls of next give, .filter_map(identity) applied.
RECURSIVE Offsets_take(_, _, _)
Offsets_take(g, it, n) ==
    IF n = 0 \/ it.finished THEN <<>>
    ELSE LET item == Offsets_item(g, it) IN
         (IF item = None THEN <<>> ELSE <<item[2]>>)
            \o Offsets_take(g, Offsets_advance(it), n - 1)

\* The iterator drained (next until it answers None), sixteen calls at a time.
RECURSIVE Offsets_items(_, _)
Offsets_items(g, it) ==
    IF it.finished THEN <<>>
    ELSE Offsets_take(g, it, 16) \o Offsets_items(g, Offsets_after(it, 16))

\* Direction::ALL .filter_map(offset_index(anchor, direction)) .flat_map(Offsets)
\* .filter_map(identity), and .map(distance + 1), from the k-th direction on.
RECURSIVE around(_, _, _)
around(g, a, k) ==
    IF k > Len(ALL) THEN <<>>
    ELSE LET position == offset_index(g, a, into(ALL[k]))
             items == IF IsOk(position)
                      THEN Offsets_items(g, Offsets_new(position[2], ALL[k]))
                      ELSE <<>>
         IN  [i \in DOMAIN items |-> <<items[i][1], items[i][2] + 1>>] \o around(g, a, k + 1)

\* usize + and - as a release build computes them; a debug build panics
\* where they wrap.
overflows(a, b) == a > USIZE_MAX - b
wrapping_add(a, b) == IF overflows(a, b) THEN a - (USIZE_MAX - b) - 1 ELSE a + b
wrapping_sub(a, b) == IF a >= b THEN a - b ELSE USIZE_MAX - (b - a) + 1

\* The filters of one (position, distance): does it become a skip, and does
\* its arithmetic wrap (distances[anchor] + distance is the first to).
is_skip(dists, sv, a, pd) ==
    /\ wrapping_add(dists[a], pd[2]) < dists[pd[1]]
    /\ wrapping_sub(wrapping_sub(dists[pd[1]], dists[a]), pd[2]) >= sv

wraps(dists, a, pd) == overflows(dists[a], pd[2])

\* Grid::flood run to its end.
RECURSIVE flood_run(_, _, _)
flood_run(g, w, st) ==
    IF st.to_visit = <<>> THEN st.distances ELSE flood_run(g, w, flood_step(g, w, st))

flood(g, s, w) ==
    flood_run(g, w, [distances |-> [i \in Indices(g) |-> IF i = s THEN 0 ELSE USIZE_MAX],
                     to_visit |-> <<Node(s, 0)>>])

\* Every racetrack of at most MaxTrackCells cells, two or more rows and columns,
\* with one 'S' and one 'E'.
SmallTracks ==
    UNION {{render(wh[1], place(base, se[1], se[2])) :
                base \in [1..(wh[1] * wh[2]) -> GridAlphabet],
                se \in {p \in (1..(wh[1] * wh[2])) \X (1..(wh[1] * wh[2])) : p[1] # p[2]}} :
           wh \in {sh \in Shapes(MaxTrackCells) : sh[1] >= 2 /\ sh[2] >= 2}}

\* A corridor longer than the reach of a cheat, lying and standing.
LongCorridor == Chars("S.....................E")
CorridorTexts ==
    {join_lines(<<LongCorridor>>), join_lines([i \in DOMAIN LongCorridor |-> <<LongCorridor[i]>>])}

InitDay20 ==
    /\ pc20 = "input"
    /\ track_text \in SmallTracks \cup CorridorTexts
    /\ save \in 0..MaxSave
    /\ racetrack = NoInput /\ flooded = <<>> /\ anchor = 0 /\ yielded = <<>>
    /\ skips = 0 /\ result20 = 0
    /\ OthersIdle("day20")

\* run(): let input = raw_input.parse()?
Day20Parse ==
    /\ pc20 = "input"
    /\ LET r == Input_from_str(track_text) IN
       IF IsOk(r) THEN racetrack' = r[2] /\ pc20' = "flood"
       ELSE racetrack' = racetrack /\ pc20' = "parse_error"
    /\ UNCHANGED <<track_text, save, flooded, anchor, yielded, skips, result20, outsideDay20>>

\* let distances = Rc::new(input.grid.flood(input.start, |tile| tile == '#'));
Day20Flood ==
    /\ pc20 = "flood"
    /\ flooded' = flood(racetrack.map, racetrack.start, {"#"})
    /\ pc20' = "anchors"
    /\ UNCHANGED <<track_text, save, racetrack, anchor, yielded, skips, result20, outsideDay20>>

\* the outer iterator passes a cell that is neither '.' nor 'S'
Day20Pass ==
    /\ pc20 = "anchors" /\ anchor < cell_count(racetrack.map)
    /\ char_at(racetrack.map, anchor) \notin {".", "S"}
    /\ anchor' = anchor + 1
    /\ UNCHANGED <<pc20, track_text, save, racetrack, flooded, yielded, skips, result20,
                   outsideDay20>>

\* the flat_map closure for one anchor, its skips collected
Day20Anchor ==
    /\ pc20 = "anchors" /\ anchor < cell_count(racetrack.map)
    /\ char_at(racetrack.map, anchor) \in {".", "S"}
    /\ \E pairs \in {around(racetrack.map, anchor, 1)} :
       \E open \in {SelectSeq(pairs, LAMBDA pd : char_at(racetrack.map, pd[1]) # "#")} :
          /\ yielded' = pairs
          /\ \/ /\ skips' = skips + Len(SelectSeq(open, LAMBDA pd :
                                                  is_skip(flooded, save, anchor, pd)))
                /\ anchor' = anchor + 1 /\ pc20' = pc20
             \/ /\ \E k \in DOMAIN open : wraps(flooded, anchor, open[k])
                /\ pc20' = "panic" /\ UNCHANGED <<skips, anchor>>
    /\ UNCHANGED <<track_text, save, racetrack, flooded, result20, outsideDay20>>

\* let result = skips.len();
Day20Return ==
    /\ pc20 = "anchors" /\ anchor = cell_count(racetrack.map)
    /\ result20' = skips /\ pc20' = "returned"
    /\ UNCHANGED <<track_text, save, racetrack, flooded, anchor, yielded, skips, outsideDay20>>

NextDay20 == Day20Parse \/ Day20Flood \/ Day20Pass \/ Day20Anchor \/ Day20Return

SpecDay20 == InitDay20 /\ [][NextDay20]_vars

----------------------------------------------------------------------------
(* Claims about day20 (SpecDay20).                                         *)

manhattan(g, i, j) == Abs(column(g, i) - column(g, j)) + Abs(row(g, i) - row(g, j))

in_reach(g, a) ==
    {b \in Indices(g) : manhattan(g, a, b) >= 1 /\ manhattan(g, a, b) <= OffsetsMAX + 1}

\* The ordered pairs (a, b) the claim counts.
cheats(g, dists, sv) ==
    {ab \in Indices(g) \X Indices(g) :
        /\ char_at(g, ab[1]) \in {".", "S"}
        /\ char_at(g, ab[2]) # "#"
        /\ ab[2] \in in_reach(g, ab[1])
        /\ dists[ab[2]] >= dists[ab[1]]
        /\ dists[ab[2]] - dists[ab[1]] >= manhattan(g, ab[1], ab[2]) + sv}

\* C19: across the four directions the Offsets iterators give every in-grid
\* cell at Manhattan distance 1 to 20 from the anchor once and only once, with
\* that distance; process_part2 returns the number of ordered pairs (a, b), a
\* a '.' or 'S' cell, b a non-wall cell within that reach, with
\* flood(b) - flood(a) - d >= SAVE.
C19_OffsetsCoverOnce ==
    /\ pc20 # "panic"
    /\ (pc20 \in {"anchors", "returned"} /\ anchor > 0
            /\ char_at(racetrack.map, anchor - 1) \in {".", "S"}) =>
          /\ \A b \in in_reach(racetrack.map, anchor - 1) :
                Cardinality({k \in DOMAIN yielded : yielded[k][1] = b}) = 1
          /\ \A k \in DOMAIN yielded :
                /\ yielded[k][1] \in in_reach(racetrack.map, anchor - 1)
                /\ yielded[k][2] = manhattan(racetrack.map, anchor - 1, yielded[k][1])
    /\ pc20 = "returned" =>
          result20 = Cardinality(cheats(racetrack.map, flooded, save))

----------------------------------------------------------------------------
(* day6.rs: Rotation, Position, Input::step, from_str and movement_map.     *)

\* Most cells of the modelled guard maps (all rectangles of two or more rows).
MaxGuardCells == 9

Rotation_NORTH == 1
Rotation_EAST == 2
Rotation_SOUTH == 4
Rotation_WEST == 8

\* Rotation::rotate90: the bit shifted left, 1 << 4 taken back to 1
Rotation_rotate90(r) ==
    LET shifted == (r * 2) % 256 IN IF shifted = 16 THEN 1 ELSE shifted

\* Position::look: the position ahead, None at the edge of the grid
Position_look(p) ==
    CASE p.direction = Rotation_NORTH ->
            IF p.position >= p.width THEN Some(p.position - p.width) ELSE None
      [] p.direction = Rotation_EAST ->
            IF p.position % p.width < p.width - 1 THEN Some(p.position + 1) ELSE None
      [] p.direction = Rotation_SOUTH ->
            IF p.position < (p.height - 1) * p.width
            THEN Some(p.position + p.width) ELSE None
      [] p.direction = Rotation_WEST ->
            IF p.position % p.width > 0 THEN Some(p.position - 1) ELSE None

\* Input::step: <<the Input afterwards, what step returned>>; Panic where
\* char_map[new_position] is out of bounds.
Input_step(inp) ==
    LET looked == Position_look(inp.position) IN
    IF looked = None THEN <<inp, None>>
    ELSE LET new_position == looked[2] IN
         IF new_position >= Len(inp.char_map) THEN Panic
         ELSE IF inp.char_map[new_position + 1] = "#"
         THEN <<[inp EXCEPT !.position.direction = Rotation_rotate90(@)],
                Some(inp.position.position)>>
         ELSE <<[inp EXCEPT !.position.position = new_position], Some(new_position)>>

\* s.lines(): the pieces of the text between its line breaks, a final empty piece
\* left out.
str_lines(cs) ==
    LET breaks == {i \in DOMAIN cs : cs[i] = NewLine}
        break(k) == IF k = 0 THEN 0
                    ELSE IF k > Cardinality(breaks) THEN Len(cs) + 1
                    ELSE CHOOSE i \in breaks : Cardinality({j \in breaks : j < i}) = k - 1
        pieces == Cardinality(breaks)
                      + (IF cs # <<>> /\ cs[Len(cs)] # NewLine THEN 1 ELSE 0)
    IN [k \in 1..pieces |-> SubSeq(cs, break(k - 1) + 1, break(k) - 1)]

\* impl FromStr for Input: Panic where an unwrap() meets None
day6_from_str(cs) ==
    LET ls == trimmed_non_empty(str_lines(cs)) IN
    IF Len(ls) < 2 THEN Panic
    ELSE LET width == byte_len(ls[1])
             char_map == Flatten(ls)
         IN IF ~\E i \in DOMAIN char_map : char_map[i] = "^" THEN Panic
            ELSE Ok([char_map |-> char_map,
                     position |-> [position |-> Min({i \in DOMAIN char_map :
                                                      char_map[i] = "^"}) - 1,
                                   direction |-> Rotation_NORTH,
                                   width |-> width,
                                   height |-> Len(char_map) \div width]])

\* visited[position] & direction != 0, with the test on any direction as its variant
seen_in_any_direction(marks, p, d) == marks[p] # 0
seen(marks, p, d) == has_bit(marks[p], d)

\* The guard maps: every rectangle of up to MaxGuardCells cells in two or more rows,
\* the guard on any cell, an obstruction or none on every other cell.
GuardShapes ==
    {wh \in (1..MaxGuardCells) \X (2..MaxGuardCells) : wh[1] * wh[2] <= MaxGuardCells}
guard_map_text(wh, at, obstructions) ==
    Flatten([r \in 1..wh[2] |->
                [c \in 1..wh[1] |->
                    LET i == (r - 1) * wh[1] + c IN
                    IF i = at THEN "^" ELSE IF i \in obstructions THEN "#" ELSE "."]
                \o <<NewLine>>])
GuardTexts ==
    UNION {UNION {{guard_map_text(wh, at, obstructions) :
                      obstructions \in SUBSET ((1..(wh[1] * wh[2])) \ {at})} :
                  at \in 1..(wh[1] * wh[2])} :
           wh \in GuardShapes}

\* day6.rs test::test_example, the first map
Example6 ==
    Chars("\n....#.....\n.........#\n..........\n..#.......\n.......#..\n..........\n.#..^.....\n........#.\n#.........\n......#...\n")

\* The same map with the obstruction process_part2 tries next to the guard, and a
\* small map whose four obstructions send the guard round a square.
Example6Obstructed ==
    Chars("\n....#.....\n.........#\n..........\n..#.......\n.......#..\n..........\n.#.#^.....\n........#.\n#.........\n......#...\n")
SquareLoop == Chars(".#..\n...#\n#^..\n..#.\n")

InitDay6 ==
    /\ OthersIdle("day6")
    /\ pc6 = "start"
    /\ guard_text = <<>>
    /\ guard_input = <<>> /\ map = <<>> /\ visited = <<>> /\ steps = 0 /\ result6 = <<>>

\* run(): get_input(DAY) hands over the text of the day's input file
Day6GetInput ==
    /\ pc6 = "start"
    /\ guard_text' \in GuardTexts \cup {Example6, Example6Obstructed, SquareLoop}
    /\ pc6' = "input"
    /\ UNCHANGED <<guard_input, map, visited, steps, result6>>
    /\ UNCHANGED outsideDay6

\* run(): raw_input.parse()
Day6Parse ==
    /\ pc6 = "input"
    /\ \E parsed \in {day6_from_str(guard_text)} :
          IF parsed = Panic
          THEN pc6' = "panic" /\ UNCHANGED guard_input
          ELSE pc6' = "parsed" /\ guard_input' = parsed[2]
    /\ UNCHANGED <<guard_text, map, visited, steps, result6>>
    /\ UNCHANGED outsideDay6

\* movement_map, up to the loop
MovementMapStart ==
    /\ pc6 = "parsed"
    /\ map' = guard_input
    /\ visited' = [i \in 0..(Len(guard_input.char_map) - 1) |->
                      IF i = guard_input.position.position
                      THEN bit_or(0, guard_input.position.direction) ELSE 0]
    /\ pc6' = "walking"
    /\ UNCHANGED <<guard_text, guard_input, steps, result6>>
    /\ UNCHANGED outsideDay6

\* one turn of the loop that ends at its closing brace
MovementMapStep ==
    /\ pc6 = "walking"
    /\ \E stepped \in {Input_step(map)} :
          IF stepped = Panic
          THEN pc6' = "panic" /\ UNCHANGED <<map, visited, steps>>
          ELSE /\ stepped[2] # None
               /\ ~seen(visited, stepped[2][2], stepped[1].position.direction)
               /\ map' = stepped[1]
               /\ visited' = [visited EXCEPT ![stepped[2][2]] =
                                 bit_or(@, stepped[1].position.direction)]
               /\ steps' = steps + 1
               /\ pc6' = "walking"
    /\ UNCHANGED <<guard_text, guard_input, result6>>
    /\ UNCHANGED outsideDay6

\* the turn of the loop that finds the position visited in this direction
MovementMapErr ==
    /\ pc6 = "walking"
    /\ \E stepped \in {Input_step(map)} :
          /\ stepped # Panic
          /\ stepped[2] # None
          /\ seen(visited, stepped[2][2], stepped[1].position.direction)
          /\ map' = stepped[1]
    /\ steps' = steps + 1
    /\ result6' = <<"Err", visited>>
    /\ pc6' = "returned"
    /\ UNCHANGED <<guard_text, guard_input, visited>>
    /\ UNCHANGED outsideDay6

\* map.step() returns None: the loop ends
MovementMapOk ==
    /\ pc6 = "walking"
    /\ \E stepped \in {Input_step(map)} :
          /\ stepped # Panic
          /\ stepped[2] = None
          /\ map' = stepped[1]
    /\ result6' = <<"Ok", visited>>
    /\ pc6' = "returned"
    /\ UNCHANGED <<guard_text, guard_input, visited, steps>>
    /\ UNCHANGED outsideDay6

NextDay6 ==
    \/ Day6GetInput
    \/ Day6Parse
    \/ MovementMapStart
    \/ MovementMapStep
    \/ MovementMapErr
    \/ MovementMapOk

SpecDay6 == InitDay6 /\ [][NextDay6]_vars

\* movement_map is one synchronous function of one thread: once called it keeps
\* taking its next step.
SpecDay6Live ==
    SpecDay6 /\ WF_vars(MovementMapStart \/ MovementMapStep \/ MovementMapErr \/ MovementMapOk)

----------------------------------------------------------------------------
(* The guard's walk by the rules of the puzzle, in <<x, y>> coordinates:    *)
(* an obstruction directly ahead turns the guard right, anything else lets  *)
(* it step ahead; past the edge it has left the grid.                       *)

OffGrid == [at |-> <<-1, -1>>, facing |-> "off"]

guard_ahead(f) ==
    CASE f = "up" -> <<0, -1>>
      [] f = "right" -> <<1, 0>>
      [] f = "down" -> <<0, 1>>
      [] f = "left" -> <<-1, 0>>

turn_right(f) ==
    CASE f = "up" -> "right"
      [] f = "right" -> "down"
      [] f = "down" -> "left"
      [] f = "left" -> "up"

\* The rows of the map text: its runs of characters other than line breaks, in the
\* order of the text.
guard_rows ==
    LET begins == {i \in DOMAIN guard_text :
                      /\ guard_text[i] # NewLine
                      /\ i = 1 \/ guard_text[i - 1] = NewLine}
        ending(b) == Min({j \in b..Len(guard_text) :
                             j = Len(guard_text) \/ guard_text[j + 1] = NewLine})
        nth(k) == CHOOSE b \in begins : Cardinality({a \in begins : a < b}) = k - 1
    IN [k \in 1..Cardinality(begins) |-> SubSeq(guard_text, nth(k), ending(nth(k)))]

walk_first(rows) ==
    LET y == CHOOSE r \in DOMAIN rows :
                 /\ \E c \in DOMAIN rows[r] : rows[r][c] = "^"
                 /\ \A q \in 1..(r - 1) : \A c \in DOMAIN rows[q] : rows[q][c] # "^"
        x == Min({c \in DOMAIN rows[y] : rows[y][c] = "^"})
    IN [at |-> <<x - 1, y - 1>>, facing |-> "up"]

walk_next(rows, s) ==
    IF s = OffGrid THEN OffGrid
    ELSE LET front == add(s.at, guard_ahead(s.facing)) IN
         IF \/ front[2] < 0 \/ front[2] >= Len(rows)
            \/ front[1] < 0 \/ front[1] >= Len(rows[1])
         THEN OffGrid
         ELSE IF rows[front[2] + 1][front[1] + 1] = "#"
         THEN [s EXCEPT !.facing = turn_right(@)]
         ELSE [s EXCEPT !.at = front]

\* Every state the guard can be in on the grid.
walk_all(rows) ==
    [at : (0..(Len(rows[1]) - 1)) \X (0..(Len(rows) - 1)),
     facing : {"up", "right", "down", "left"}]

guard_cells(rows) == Len(rows) * Len(rows[1])

\* The states from which the walk leaves the grid: those whose next step is off
\* the grid, then those whose next state is one of these, and so on. `latest` are
\* the states found in the round before.
RECURSIVE leaving(_, _, _)
leaving(rows, found, latest) ==
    IF latest = {} THEN found
    ELSE LET more == {s \in walk_all(rows) \ found : walk_next(rows, s) \in latest}
         IN leaving(rows, found \cup more, more)

never_leaves(rows) == walk_first(rows) \notin leaving(rows, {}, {OffGrid})

\* The walk's first n + 1 states.
RECURSIVE walk_states(_, _, _)
walk_states(rows, s, n) ==
    IF n = 0 THEN <<s>> ELSE <<s>> \o walk_states(rows, walk_next(rows, s), n - 1)

\* The code's Position as a state of the walk.
as_walk_state(p) ==
    [at |-> <<p.position % p.width, p.position \div p.width>>,
     facing |-> CASE p.direction = Rotation_NORTH -> "up"
                  [] p.direction = Rotation_EAST -> "right"
                  [] p.direction = Rotation_SOUTH -> "down"
                  [] p.direction = Rotation_WEST -> "left"]

\* The directions the first `upto` states of `walked` entered position i in, as a
\* mask.
marks_of(walked, upto, i) ==
    LET entered(b) == \E k \in 1..upto :
                         walked[k] = as_walk_state([map.position EXCEPT
                                                       !.position = i, !.direction = b])
    IN (IF entered(1) THEN 1 ELSE 0) + (IF entered(2) THEN 2 ELSE 0)
        + (IF entered(4) THEN 4 ELSE 0) + (IF entered(8) THEN 8 ELSE 0)

\* walked[k] is the state after k - 1 steps.
C20_Walking ==
    pc6 = "walking" =>
        \E rows \in {guard_rows} :
        \E walked \in {walk_states(rows, walk_first(rows), steps)} :
            /\ steps < 4 * guard_cells(rows)
            /\ \A i, j \in 1..(steps + 1) : i < j => walked[i] # walked[j]
            /\ walked[steps + 1] = as_walk_state(map.position)
            /\ \A i \in DOMAIN visited : visited[i] = marks_of(walked, steps + 1, i)
C20_Returned ==
    pc6 = "returned" =>
        \E rows \in {guard_rows} :
        \E walked \in {walk_states(rows, walk_first(rows), steps + 1)} :
            /\ result6[1] \in {"Ok", "Err"}
            /\ \A i, j \in 1..steps : i < j => walked[i] # walked[j]
            /\ result6[1] = "Ok" <=> walked[steps + 2] = OffGrid
            /\ result6[1] = "Ok" => walked[steps + 1] # OffGrid
            /\ result6[1] = "Err" <=>
                  /\ walked[steps + 1] # OffGrid
                  /\ \E j \in 1..steps : walked[j] = walked[steps + 1]
            /\ result6[1] = "Err" <=> never_leaves(rows)
            /\ \A i \in DOMAIN result6[2] :
                  result6[2][i] =
                      marks_of(walked, IF result6[1] = "Ok" THEN steps + 1 ELSE steps, i)

----------------------------------------------------------------------------
(* day21.rs: what Combinations::new yields.                                 *)

\* The parts a Combination yields reversed.
reversed_at(parts, variants) ==
    {i \in DOMAIN parts : Combination(parts, variants)[i] # parts[i]}

reversible_at(parts) == {i \in DOMAIN parts : is_reversible(parts[i])}

\* The runs of Combinations the closure holds.
frontier == {current[i] : i \in DOMAIN current} \cup {next[i] : i \in DOMAIN next}

\* C21: for a route plan of k reversible routes Combinations::new yields 2^k
\* combinations, and they cover every choice of which reversible routes are reversed,
\* each choice once.
C21_CombinationsCoverChoices ==
    pc21 = "expand" =>
        \A c \in frontier :
            /\ c.count = 2 ^ Cardinality(reversible_at(c.parts))
            /\ {reversed_at(c.parts, v) : v \in 0..(c.count - 1)}
                   = SUBSET reversible_at(c.parts)
            /\ \A v, w \in 0..(c.count - 1) :
                   reversed_at(c.parts, v) = reversed_at(c.parts, w) => v = w

----------------------------------------------------------------------------
(* day21.rs: process_part2, called after process_part1 on the same Input.   *)

\* for generation in 0..26
Generations2 == 26
\* The generations whose frontier is kept route by route. A frontier grows by more
\* than twice a generation; past this many only the generation count is kept, the
\* frontier being known to be non-empty.
TrackedGenerations == 2

Untracked == <<[parts |-> <<>>, len |-> 0, count |-> 0]>>
UntrackedSum == 0 - 1

\* A slip: the filter `combination.len() <= min_length` is left out.
expand_pop2_unfiltered(st) ==
    LET last == st.current[Len(st.current)]
        front == SubSeq(st.current, 1, Len(st.current) - 1)
        popped == IF last.count = 1 THEN front
                  ELSE Append(front, [last EXCEPT !.count = last.count - 1])
        combinations == Combos(directional_routes(Combination(last.parts, last.count - 1)))
        new_min_length == combinations.len
    IN  IF st.next = <<>> \/ st.min_length = new_min_length
        THEN [current |-> popped, next |-> Append(st.next, combinations),
              min_length |-> st.min_length]
        ELSE [current |-> popped, next |-> <<combinations>>,
              min_length |-> new_min_length]

\* One turn of `while let Some(steps) = current.pop()` of process_part2:
\* st = [current, next, min_length]. All Combinations of one plan have one length,
\* so the filter and min_set_by keep all of them or none.
expand_pop2(st) ==
    LET last == st.current[Len(st.current)]
        front == SubSeq(st.current, 1, Len(st.current) - 1)
        popped == IF last.count = 1 THEN front
                  ELSE Append(front, [last EXCEPT !.count = last.count - 1])
        combinations == Combos(directional_routes(Combination(last.parts, last.count - 1)))
        new_min_length == combinations.len
    IN  IF new_min_length > st.min_length
        THEN [current |-> popped, next |-> st.next, min_length |-> st.min_length]
        ELSE IF st.next = <<>> \/ st.min_length = new_min_length
        THEN [current |-> popped, next |-> Append(st.next, combinations),
              min_length |-> st.min_length]
        ELSE [current |-> popped, next |-> <<combinations>>,
              min_length |-> new_min_length]

\* the length of the plan a popped Combination expands to
expanded_len(cur) ==
    combination_len(directional_routes(
        Combination(cur[Len(cur)].parts, cur[Len(cur)].count - 1)))

\* process_part2 is called
Part2Start ==
    /\ pc21 = "done" /\ pcP2 = "idle"
    /\ pcP2' = "code"
    /\ line2' = 1
    /\ sum2' = 0
    /\ UNCHANGED <<code_num2, generation2, current2, next2, min_length2, applied2,
                   produced, result22>>
    /\ UNCHANGED outsidePart2

\* the closure up to its generation loop: day21.rs 579-591
Part2StartCode ==
    /\ pcP2 = "code" /\ line2 <= Len(codes)
    /\ LET code == codes[line2] IN
       IF ~IsOk(numeric_prefix(code)) \/ \E i \in DOMAIN code : code[i] \notin NumericKeys
       THEN pcP2' = "panic"
            /\ UNCHANGED <<code_num2, generation2, current2, next2, min_length2, applied2>>
       ELSE /\ code_num2' = numeric_prefix(code)[2]
            /\ current2' = <<Combos(numeric_routes(code, NumericSTART))>>
            /\ next2' = <<>>
            /\ generation2' = 0
            /\ min_length2' = USIZE_MAX
            /\ applied2' = 0
            /\ pcP2' = "expand"
    /\ produced' = {}
    /\ UNCHANGED <<line2, sum2, result22>>
    /\ UNCHANGED outsidePart2

\* one turn of `while let Some(steps) = current.pop()`: day21.rs 594-613
Part2Pop ==
    /\ pcP2 = "expand" /\ current2 # Untracked /\ current2 # <<>>
    /\ LET st == expand_pop2([current |-> current2, next |-> next2,
                              min_length |-> min_length2]) IN
       current2' = st.current /\ next2' = st.next /\ min_length2' = st.min_length
    /\ produced' = produced \cup {expanded_len(current2)}
    /\ UNCHANGED <<pcP2, line2, code_num2, generation2, applied2, sum2, result22>>
    /\ UNCHANGED outsidePart2

\* current is empty: swap, next.clear(), the next generation with its min_length
Part2EndGeneration ==
    /\ pcP2 = "expand" /\ current2 = <<>>
    /\ current2' = IF generation2 + 1 >= TrackedGenerations /\ next2 # <<>>
                   THEN Untracked ELSE next2
    /\ next2' = <<>>
    /\ min_length2' = USIZE_MAX
    /\ generation2' = generation2 + 1
    /\ applied2' = IF produced # {} THEN applied2 + 1 ELSE applied2
    /\ produced' = {}
    /\ pcP2' = IF generation2 + 1 = Generations2 THEN "result" ELSE "expand"
    /\ UNCHANGED <<line2, code_num2, sum2, result22>>
    /\ UNCHANGED outsidePart2

\* a whole generation on a frontier that is not tracked: it is not empty, so the
\* expansion is applied and the next frontier is not empty either
Part2Untracked ==
    /\ pcP2 = "expand" /\ current2 = Untracked
    /\ generation2' = generation2 + 1
    /\ applied2' = applied2 + 1
    /\ pcP2' = IF generation2 + 1 = Generations2 THEN "result" ELSE "expand"
    /\ UNCHANGED <<line2, code_num2, current2, next2, min_length2, produced, sum2,
                   result22>>
    /\ UNCHANGED outsidePart2

\* the closure from `let result` on: day21.rs 619-636; first().unwrap() panics on
\* an empty current
Part2FinishCode ==
    /\ pcP2 = "result"
    /\ IF current2 = <<>>
       THEN pcP2' = "panic" /\ UNCHANGED <<sum2, line2>>
       ELSE /\ sum2' = IF current2 = Untracked \/ sum2 = UntrackedSum THEN UntrackedSum
                       ELSE sum2 + code_num2 * current2[1].len
            /\ line2' = line2 + 1
            /\ pcP2' = "code"
    /\ UNCHANGED <<code_num2, generation2, current2, next2, min_length2, applied2,
                   produced, result22>>
    /\ UNCHANGED outsidePart2

\* the codes are exhausted: .sum() and Ok(result)
Part2Return ==
    /\ pcP2 = "code" /\ line2 > Len(codes)
    /\ result22' = sum2
    /\ pcP2' = "done"
    /\ UNCHANGED <<line2, code_num2, generation2, current2, next2, min_length2,
                   applied2, produced, sum2>>
    /\ UNCHANGED outsidePart2

NextPart2 ==
    \/ Part2Start
    \/ Part2StartCode
    \/ Part2Pop
    \/ Part2EndGeneration
    \/ Part2Untracked
    \/ Part2FinishCode
    \/ Part2Return

\* process_part1 and then process_part2 on an input of one code
NextParts == NextDay21 \/ NextPart2

\* The codes process_part2 is followed on: a digit and 'A', the example's codes
\* and HardCode.
PartsCodes ==
    {<<d, "A">> : d \in NumericKeys \ {"A"}}
    \cup {ExampleCodes[i] : i \in DOMAIN ExampleCodes} \cup {HardCode}

InitParts ==
    /\ raw_codes \in {join_lines(<<code>>) : code \in PartsCodes}
    /\ day21Start
    /\ OthersIdle("day21")

SpecParts == InitParts /\ [][NextParts]_vars

\* C22: process_part1 applies the directional-keypad expansion to each code's route
\* plan exactly 2 times, process_part2 exactly 25 times.
C22_ExpansionCounts ==
    /\ pc21 = "result" => generation = 2
    /\ pcP2 = "result" => applied2 = 25


----------------------------------------------------------------------------
(* day16 count_best_paths: the direction masks of the forward search.       *)

\* The cell i is the cell next to the cell p in the direction d.
next_to(inp, p, d, i) ==
    /\ i % inp.map.width = (p % inp.map.width) + into(d)[1]
    /\ i \div inp.map.width = (p \div inp.map.width) + into(d)[2]

\* The directions in which the state `top` moves into the cell i: every direction
\* but the one it came from, when i is no wall.
moves_into(inp, top, i) ==
    {d \in Direction : /\ d # rotate180(top.facing)
                       /\ next_to(inp, top.position, d, i)
                       /\ char_at(inp.map, i) # "#"}

\* The state `top` is one the forward loop expands.
expanded(inp, sc, top) ==
    /\ top.score <= sc[inp.end][1]
    /\ top.score <= sc[top.position][1]

\* C23: a turn of count_best_paths' forward loop changes the direction
\* mask of a cell only when it gives that cell a strictly lower best cost; a move
\* into a cell that does not improve the cell's cost leaves its mask as it was.
C23_MaskOnlyOnImprovement ==
    [][pc16 = "count_forward" =>
          \A i \in DOMAIN scores :
              scores'[i][2] # scores[i][2] => scores'[i][1] < scores[i][1]]_vars

\* What the forward loop does: a turn that expands a state sets, in every
\* cell the state moves into, the bit of the direction back to where it came from,
\* whether or not the move lowers the cell's cost; no other bit changes, and a
\* turn that discards its state changes no mask.
MaskOnEveryMove ==
    [][pc16 = "count_forward" =>
          \A top \in heap \ heap' : \A i \in DOMAIN scores : \A b \in Direction :
              has_bit(scores'[i][2], mask(b)) <=>
                  \/ has_bit(scores[i][2], mask(b))
                  \/ /\ expanded(input, scores, top)
                     /\ rotate180(b) \in moves_into(input, top, i)]_vars


----------------------------------------------------------------------------
(* SpecKeys: the keypads of day21.rs on their own: route_to_coordinate for  *)
(* a pair of keys, and a route plan expanded by DirectionalKeypad and fed   *)
(* to Simulate.                                                            *)

\* The cells that hold a key, and the cell of the keys' rectangle that holds none.
NumericCells == {numeric_input_to_coordinate(k) : k \in NumericKeys}
DirectionalCells == {directional_input_to_coordinate(k) : k \in DirectionalKeys}
key_cells(kp) == IF kp = "numeric" THEN NumericCells ELSE DirectionalCells
gap_cell(kp) ==
    CHOOSE c \in ({k[1] : k \in key_cells(kp)} \X {k[2] : k \in key_cells(kp)}) :
        c \notin key_cells(kp)

\* Keypad::route_to_coordinate of the named keypad
route_to_coordinate(kp, from, to) ==
    IF kp = "numeric" THEN numeric_route_to_coordinate(from, to)
    ELSE directional_route_to_coordinate(from, to)

\* routes.flat_map(|route| route.chars()).collect()
plan_chars(routes) == Flatten([k \in DOMAIN routes |-> route_chars(routes[k])])

\* The codes whose plans are expanded: a digit and 'A', and the example's codes.
KeyCodes ==
    {<<d, "A">> : d \in NumericKeys \ {"A"}} \cup {ExampleCodes[i] : i \in DOMAIN ExampleCodes}

InitKeys ==
    /\ pcK = "choose" /\ keypad = "" /\ route_from = <<0, 0>> /\ route_to = <<0, 0>>
    /\ returned_route = Empty(0)
    /\ plan = <<>> /\ expansion = <<>> /\ sim_steps = <<>>
    /\ sim_position = <<0, 0>> /\ simulated = <<>>
    /\ OthersIdle("keys")

\* a keypad and an ordered pair of its keys are chosen
RouteChoose ==
    /\ pcK = "choose"
    /\ \E kp \in {"numeric", "directional"} : \E from, to \in key_cells(kp) :
          keypad' = kp /\ route_from' = from /\ route_to' = to
    /\ pcK' = "route_call"
    /\ UNCHANGED <<returned_route, plan, expansion, sim_steps, sim_position, simulated>>
    /\ UNCHANGED outsideKeys

\* Keypad::route_to_coordinate(from, to): day21.rs 86-113, 278-305
RouteToCoordinate ==
    /\ pcK = "route_call"
    /\ returned_route' = route_to_coordinate(keypad, route_from, route_to)
    /\ pcK' = "route_done"
    /\ UNCHANGED <<keypad, route_from, route_to, plan, expansion, sim_steps, sim_position,
                   simulated>>
    /\ UNCHANGED outsideKeys

\* NumericKeypad::new(code.chars()).collect(), and one of the Combinations that
\* Combinations::new yields of it
NumericPlan ==
    /\ pcK = "choose"
    /\ \E code \in KeyCodes :
          LET parts == numeric_routes(code, NumericSTART) IN
          \E variants \in 0..combinations_max(parts) :
              plan' = Combination(parts, variants)
    /\ keypad' = "numeric"
    /\ pcK' = "plan"
    /\ UNCHANGED <<route_from, route_to, returned_route, expansion, sim_steps,
                   sim_position, simulated>>
    /\ UNCHANGED outsideKeys

\* DirectionalKeypad::new(plan).collect() of a numeric plan, and one of the
\* Combinations that Combinations::new yields of it
DirectionalPlan ==
    /\ pcK = "plan" /\ keypad = "numeric"
    /\ LET parts == directional_routes(plan) IN
       \E variants \in 0..combinations_max(parts) :
           plan' = Combination(parts, variants)
    /\ keypad' = "directional"
    /\ UNCHANGED <<pcK, route_from, route_to, returned_route, expansion, sim_steps,
                   sim_position, simulated>>
    /\ UNCHANGED outsideKeys

\* Simulate::<_, DirectionalKeypad<_>>::new over the characters of
\* DirectionalKeypad::new(plan): day21.rs 372-380
SimulateNew ==
    /\ pcK = "plan"
    /\ expansion' = directional_routes(plan)
    /\ sim_steps' = plan_chars(directional_routes(plan))
    /\ sim_position' = DirectionalSTART
    /\ simulated' = <<>>
    /\ pcK' = "simulate"
    /\ UNCHANGED <<keypad, route_from, route_to, returned_route, plan>>
    /\ UNCHANGED outsideKeys

\* Simulate::next on a step: day21.rs 385-396. coordinate_to_input panics off the
\* keys, and a step that is no direction and no 'A' panics.
SimulateNext ==
    /\ pcK = "simulate" /\ sim_steps # <<>>
    /\ LET step == Head(sim_steps) IN
       /\ sim_steps' = Tail(sim_steps)
       /\ IF step = "A"
          THEN /\ sim_position' = sim_position
               /\ IF IsOk(directional_coordinate_to_input(sim_position))
                  THEN /\ simulated' =
                             Append(simulated, directional_coordinate_to_input(sim_position)[2])
                       /\ pcK' = pcK
                  ELSE simulated' = simulated /\ pcK' = "panic"
          ELSE IF \E d \in Direction : symbol(d) = step
          THEN /\ sim_position' = add(sim_position, into(step_direction(step)))
               /\ simulated' = simulated /\ pcK' = pcK
          ELSE sim_position' = sim_position /\ simulated' = simulated /\ pcK' = "panic"
    /\ UNCHANGED <<keypad, route_from, route_to, returned_route, plan, expansion>>
    /\ UNCHANGED outsideKeys

\* the steps are exhausted: Simulate::next returns None (day21.rs 386)
SimulateNone ==
    /\ pcK = "simulate" /\ sim_steps = <<>>
    /\ pcK' = "simulated"
    /\ UNCHANGED <<keypad, route_from, route_to, returned_route, plan, expansion, sim_steps,
                   sim_position, simulated>>
    /\ UNCHANGED outsideKeys

NextKeys ==
    \/ RouteChoose
    \/ RouteToCoordinate
    \/ NumericPlan
    \/ DirectionalPlan
    \/ SimulateNew
    \/ SimulateNext
    \/ SimulateNone

SpecKeys == InitKeys /\ [][NextKeys]_vars

\* The legs of a route in the stored order, the cell a walk of legs ends on and
\* the cells it passes over (the cell it starts on left out).
route_legs(r) ==
    CASE r.kind = "Empty"     -> <<>>
      [] r.kind = "Direct"    -> <<r.first>>
      [] r.kind = "Segmented" -> <<r.first, r.second>>
leg_end(p, leg) == add(p, mul(into(leg[1]), leg[2]))
leg_cells(p, leg) == {add(p, mul(into(leg[1]), k)) : k \in 1..leg[2]}
walk_end(p, legs) ==
    IF legs = <<>> THEN p
    ELSE IF Len(legs) = 1 THEN leg_end(p, legs[1])
    ELSE leg_end(leg_end(p, legs[1]), legs[2])
walk_cells(p, legs) ==
    IF legs = <<>> THEN {}
    ELSE IF Len(legs) = 1 THEN leg_cells(p, legs[1])
    ELSE leg_cells(p, legs[1]) \cup leg_cells(leg_end(p, legs[1]), legs[2])

\* C24: for every ordered pair of keys of the numeric and of the directional
\* keypad, the legs of route_to_coordinate(from, to), walked in the stored order
\* from `from`, end on `to` and pass over keys only, never over the gap; the route
\* is flagged reversible exactly when it has two legs, none of length 0, and the
\* walk of the legs in the opposite order does not pass over the gap either.
C24_RoutesAvoidGap ==
    pcK = "route_done" =>
        LET legs == route_legs(returned_route) IN
        /\ walk_end(route_from, legs) = route_to
        /\ walk_cells(route_from, legs) \subseteq key_cells(keypad)
        /\ gap_cell(keypad) \notin walk_cells(route_from, legs)
        /\ is_reversible(returned_route) <=>
              /\ Len(legs) = 2
              /\ legs[1][2] # 0 /\ legs[2][2] # 0
              /\ gap_cell(keypad) \notin walk_cells(route_from, <<legs[2], legs[1]>>)

\* The route from 7 to A on the numeric keypad: two legs, east first, that must
\* not be reversed.
C24_Witness ==
    /\ pcK = "route_done" /\ keypad = "numeric"
    /\ route_from = <<0, 0>> /\ route_to = <<2, 3>>
    /\ returned_route = Segmented(Leg(East, 2), Leg(South, 3), FALSE)


\* s is a prefix of t.
is_prefix(s, t) == Len(s) <= Len(t) /\ SubSeq(t, 1, Len(s)) = s

\* C27: for every route plan made by NumericKeypad for a code, or made by
\* DirectionalKeypad from such a plan, with any reversal a Combination applies,
\* Simulate on the directional keypad fed with the characters of
\* DirectionalKeypad::new(plan) yields exactly the characters of the plan; at every
\* 'A' it takes, its position is on a key, so it never panics; and the lengths
\* (Route::len) of the expanded plan's routes add up to the number of its characters.
C27_SimulateReplaysPlan ==
    /\ pcK # "panic"
    /\ pcK \in {"simulate", "simulated"} =>
          /\ is_prefix(simulated, plan_chars(plan))
          /\ combination_len(expansion) = Len(plan_chars(expansion))
          /\ (sim_steps # <<>> /\ Head(sim_steps) = "A") => sim_position \in DirectionalCells
    /\ pcK = "simulated" => simulated = plan_chars(plan)

\* Simulate has replayed a plan of the first directional keypad in which a
\* Combination had reversed a route (the up or down leg comes first).
C27_Witness ==
    /\ pcK = "simulated" /\ keypad = "directional"
    /\ simulated = plan_chars(plan) /\ Len(simulated) > 20
    /\ \E k \in DOMAIN plan :
          /\ is_reversible(plan[k])
          /\ plan[k].first[1] \in {North, South}


----------------------------------------------------------------------------
(* Grid::flood: every cell is written and enqueued once (SpecGrid).         *)

\* The cells whose distance a step changes.
written_cells == {i \in DOMAIN distances : distances'[i] # distances[i]}

\* The queue holds no cell twice, holds each cell with the distance written for
\* it, and its distances do not decrease from front to back.
queue_in_order ==
    /\ \A a, b \in DOMAIN to_visit :
          /\ to_visit[a].position = to_visit[b].position => a = b
          /\ a <= b => to_visit[a].distance <= to_visit[b].distance
    /\ \A a \in DOMAIN to_visit : distances[to_visit[a].position] = to_visit[a].distance

\* One turn of flood's loop writes only cells that still hold usize::MAX, writes a
\* cell once, enqueues exactly the cells it writes, and leaves at the front of the
\* queue a node whose distance is not below the one it took.
writes_once ==
    /\ \A i \in written_cells : distances[i] = USIZE_MAX /\ distances'[i] < USIZE_MAX
    /\ Len(to_visit') = Len(to_visit) - 1 + Cardinality(written_cells)
    /\ {to_visit'[a].position : a \in Len(to_visit)..Len(to_visit')} = written_cells
    /\ to_visit' # <<>> => Head(to_visit').distance >= Head(to_visit).distance

\* C25: during Grid::flood the distance of a cell is written at most once after
\* the initialisation, a cell is enqueued at most once, and the distances of the
\* nodes taken from the queue never decrease.
C25_FloodWritesOnce ==
    /\ [](gpc = "flood" => queue_in_order)
    /\ [][(gpc = "flood" /\ gpc' = "flood") => writes_once]_vars

\* A flood under way that has written three cells or more, two of them at the same
\* distance, and has a cell waiting that is next to a cell already written.
C25_Witness ==
    /\ gpc = "flood" /\ to_visit # <<>>
    /\ \E i, j \in DOMAIN distances :
          i # j /\ distances[i] = distances[j] /\ distances[i] \in 1..(USIZE_MAX - 1)
    /\ Cardinality({i \in DOMAIN distances : distances[i] < USIZE_MAX}) >= 4


----------------------------------------------------------------------------
(* day18 process_part2: the distances kept from byte to byte (SpecDay18).   *)

\* The distances a scan started afresh on the grid g gives: 0 for the top-left
\* cell, the fewest steps over uncorrupted cells for a cell that can be reached
\* from it, usize::MAX for any other.
fresh_distances(g) ==
    LET ref == min_steps(g, {TRUE}, 0) IN
    [i \in Indices(g) |-> IF i \in DOMAIN ref THEN ref[i] ELSE USIZE_MAX]

\* The distances stored for the uncorrupted cells are those of a fresh scan.
distances_fresh ==
    \A i \in Indices(memory) :
        ~char_at(memory, i) => byte_distances[i] = fresh_distances(memory)[i]

\* C28: in process_part2, once a byte after the first INITIAL ones has been
\* processed, the distance stored for every uncorrupted cell is the distance a
\* breadth-first search started afresh from the top-left cell of the grid as it
\* is now gives, usize::MAX for a cell that cannot be reached.
C28_DistancesStayFresh ==
    (pc18 \in {"bytes", "returned"} /\ fallen > initial18) => distances_fresh

\* The same on the inputs none of whose bytes falls on the top-left cell.
DistancesStayFreshOffStart ==
    (/\ pc18 \in {"bytes", "returned"} /\ fallen > initial18
     /\ \A k \in DOMAIN byte_locations : byte_locations[k] # <<0, 0>>) => distances_fresh


----------------------------------------------------------------------------
(* get_input's directory step under the day tasks of main (SpecMain).      *)

\* In one step, day d's create_dir returns an error: get_input returns
\* "Failed to create directory for inputs" (days.rs 81-82).
create_dir_fails(d) == day_pc[d] = "create_dir" /\ day_pc'[d] = "err"

\* C30: whatever the interleaving of the day tasks' exists-checks and
\* create_dir calls, no call of get_input fails with "Failed to create
\* directory for inputs".
C30_CreateDirNeverFails ==
    [][\A d \in 1..MaxDays : ~create_dir_fails(d)]_vars

\* A create_dir fails only after another task's create_dir made the directory,
\* between this task's exists-check and its own create_dir.
CreateDirFailsOnlyAfterRace ==
    [][\A d \in 1..MaxDays : create_dir_fails(d) =>
          /\ input_dir = "dir"
          /\ \E e \in 1..MaxDays : e # d /\ day_pc[e] \notin {"unspawned", "get_input", "create_dir"}]_vars

----------------------------------------------------------------------------
(* SpecDay16Live: process_part2 of day16 called on a parsed maze, as run()  *)
(* and the tests call it, under the fairness of a sequential program; on    *)
(* the mazes of at most LiveMazeCells cells and on a maze with an open      *)
(* square.                                                                  *)

\* A maze whose open cells hold a square that the backward walk of
\* count_best_paths can go round.
\* The mazes of the fair specification have at most this many cells.
LiveMazeCells == 6

RoundMaze == rows_text(<<
    "S...",
    ".#..",
    ".E..">>)

\* let input = raw_input.parse()?; process_part2(&input): day16.rs 220-221
InitDay16Live ==
    /\ raw_input \in MazesUpTo(LiveMazeCells) \cup {RoundMaze}
    /\ IsOk(Input_from_str(raw_input))
    /\ input = Input_from_str(raw_input)[2]
    /\ pc16 = "part2"
    /\ scores = <<>> /\ heap = {} /\ result1 = None
    /\ shortest_path = <<>> /\ shortest_map = <<>> /\ result2 = 0
    /\ OthersIdle("day16")

NextDay16Live ==
    \/ CountStart
    \/ CountForwardPop
    \/ CountForwardEmpty
    \/ CountBackwardPop
    \/ CountReturn

\* count_best_paths is sequential code: a loop that can take a turn takes it.
\* Each turn of the two loops changes the heap, the queue or the place in the
\* code.
SpecDay16Live ==
    /\ InitDay16Live
    /\ [][NextDay16Live]_vars
    /\ WF_<<pc16, heap, shortest_path>>(NextDay16Live)

\* C29: count_best_paths terminates on every maze: the forward search is left,
\* the queue of the backward walk empties and the count is returned, and no
\* offset_index(..).unwrap() of the walk panics.
C29_CountBestPathsTerminates ==
    /\ [](pc16 # "panic")
    /\ (pc16 = "part2") ~> (pc16 = "count_backward")
    /\ (pc16 = "count_backward") ~> (pc16 = "done")

\* The parts of C29 that hold: the forward search is left, and no unwrap() of
\* the backward walk panics.
ForwardSearchStops ==
    /\ [](pc16 # "panic")
    /\ (pc16 = "part2") ~> (pc16 = "count_backward")

============================================================================
